---- MODULE Spec2Model ----
(***************************************************************************)
(* Daily-progress and elimination rules of the running-challenge tracker.  *)
(*                                                                         *)
(* Persistent state is the SQLite database of src/database.js (tables      *)
(* users and daily_progress); the operations are the exported functions    *)
(* of src/database.js and the helpers and request handlers of the server   *)
(* file (src/unnamed/part_000).                                            *)
(*                                                                         *)
(* Conventions                                                             *)
(*   - A JavaScript Date is an instant, counted in ticks; TicksPerDay      *)
(*     ticks make one day.  date.toISOString().split('T')[0] is the UTC    *)
(*     calendar day of the instant, ISODate(t); getMonth()/getDate() read  *)
(*     the local calendar day, LocalDay(t), which is shifted by the        *)
(*     server's zone offset tz.                                            *)
(*   - A TEXT date column holds a UTC day number.                          *)
(*   - A nullable column holds <<>> for NULL and <<v>> for the value v.    *)
(*   - Distances are in hundredths of a mile.                              *)
(*   - The table users is a function from the row id (INTEGER PRIMARY KEY  *)
(*     AUTOINCREMENT) to the row; ids are handed out in increasing order,  *)
(*     so the order of the ids is the order of creation.  The columns id   *)
(*     and created_at of daily_progress are never read and are left out.   *)
(*     The table activities is such a function too; the server fetches     *)
(*     activities from the provider and never reads or writes the table.   *)
(*   - The server runs on a database that has the profile columns (age,    *)
(*     sex, baseline_mile_pace, profile_complete) of src/update-schema.js. *)
(*   - A request handler runs to its first await without interruption; a   *)
(*     handler whose writes all follow its last await is one action, taken *)
(*     when the awaited answer arrives.                                    *)
(***************************************************************************)
EXTENDS Integers, Sequences, FiniteSets, TLC

VARIABLES
    users,            \* table users: function from row id to row
    progress,         \* table daily_progress: set of rows
    now,              \* the wall clock, in ticks
    tz,               \* the server's time-zone offset, in ticks (local = UTC + tz)
    last,             \* the last call or request step: its arguments and what it returned
    sqlite_sequence,  \* table sqlite_sequence: the largest rowid handed out, per table
    lastInsertRowid,  \* the connection's last_insert_rowid()
    homeRequests,     \* the GET / requests that wait for an activities answer
    activityRows      \* table activities: function from row id to row

vars == <<users, progress, now, tz, last, sqlite_sequence, lastInsertRowid, homeRequests,
          activityRows>>

----------------------------------------------------------------------------
(* Bounds of the model *)

MaxUsers == 1          \* athletes that authenticate with the server
MaxTick == 2           \* the server's clock runs from 0 to MaxTick
TicksPerDay == 2       \* clock resolution
MaxToken == 1          \* distinct access tokens the provider hands out
EpochDayOfYear == 31   \* day 0 of the clock is this day of the year (31 = January 31)
MaxAuthentications == 2  \* saveUser calls of the server (each takes a rowid)
MaxEvaluations == 1    \* GET /progress evaluations of the server (each takes 30 rowids)
MaxBailouts == 1        \* passes a user spends among all the handlers
MaxHomeRequests == 1   \* GET / requests waiting for an answer at one time
FeedUsers == 2         \* athletes of the requests with a failing activity feed
LedgerUsers == 2       \* users of the ledger calls
LedgerMaxDay == 1      \* last day of the clock of the ledger calls
LedgerMaxRowid == 3    \* rowids the ledger calls take from users
LedgerMaxProgressRowid == 1  \* rowids the ledger calls take from daily_progress
LedgerActivities == 2  \* distinct activities handed to saveActivity
LedgerMaxMeters == 1   \* largest distance and moving time of such an activity
LedgerMaxActivityRowid == 2  \* rowids the ledger calls take from activities
MaxMisses == 3         \* largest consecutiveMisses passed to validateStreak directly
StoreUsers == 2        \* users of the progress-store calls
StoreMaxTick == 2       \* instants passed to the progress-store calls
StoreMaxRowid == 4     \* rowids the progress-store calls take
MaxHist == 11          \* longest history drawn for the consecutive-miss scan
MaxShort == 4          \* histories up to this length are drawn over all statuses
StreakDays == 5        \* days of the histories drawn for calculateStreaks
WinnerUsers == 3       \* users handed to determineWinner
FeedMaxDay == 1        \* last day of the requests with a failing activity feed
PassesMaxTick == 1     \* clock of the bailout requests
AbsenceEvaluations == 2  \* evaluations around an absence
AbsenceMaxTick == 1    \* clock ticks before and after an absence
DistanceYears == 2     \* years of dates handed to getRequiredDistance
MaxRuns == 2           \* runs of one day handed to checkDailyGoal

(* Program constants *)

DefaultBailoutPasses == 4      \* bailout_passes INTEGER DEFAULT 4
RecentLimit == 10              \* LIMIT 10 of getConsecutiveMisses
EliminationThreshold == 3      \* consecutiveMisses >= 3
AtRiskThreshold == 2           \* consecutiveMisses === 2
HistoryWindowDays == 30        \* thirtyDaysAgo.setDate(thirtyDaysAgo.getDate() - 30)
WindowDays == 30               \* for (let i = 29; i >= 0; i--): the days GET /progress evaluates

EliminationReasonText == "Three consecutive missed days"
AtRiskReasonText == "Two consecutive misses - one more and you're eliminated!"

Statuses == {"completed", "missed", "bailout", "pending"}

NULL == <<>>
Some(v) == <<v>>

----------------------------------------------------------------------------
(* Dates *)

\* date.toISOString().split('T')[0]: the UTC calendar day of an instant
ISODate(t) == t \div TicksPerDay

\* the local calendar day read by getMonth()/getDate()/toDateString()
LocalDay(t) == (t + tz) \div TicksPerDay

\* new Date('YYYY-MM-DD'): midnight UTC of that day
DateOfDay(d) == d * TicksPerDay

\* date.setDate(date.getDate() - i): the same local time, i days earlier
MinusDays(t, i) == t - i * TicksPerDay

\* a Date object: its time value, or Invalid Date (time value NaN)
DateAt(t) == [valid |-> TRUE, time |-> t]
InvalidDate == [valid |-> FALSE, time |-> 0]

(* The calendar: the clock's days lie in one non-leap year (the challenge  *)
(* starts 2026-01-01, part_000 line 188).                                  *)
MonthLengths == <<31, 28, 31, 30, 31, 30, 31, 31, 30, 31, 30, 31>>

RECURSIVE MonthOfYearDay(_, _)
MonthOfYearDay(yd, m) ==
    IF m >= 12 \/ yd <= MonthLengths[m] THEN m
    ELSE MonthOfYearDay(yd - MonthLengths[m], m + 1)

RECURSIVE DayOfYearDay(_, _)
DayOfYearDay(yd, m) ==
    IF m >= 12 \/ yd <= MonthLengths[m] THEN yd
    ELSE DayOfYearDay(yd - MonthLengths[m], m + 1)

\* the day of the year, 1 .. 365, of the local calendar day of an instant; the
\* years of the clock are not leap years
DaysPerYear == 365
YearDay(t) == ((EpochDayOfYear + LocalDay(t) - 1) % DaysPerYear) + 1

\* date.getMonth() + 1 and date.getDate() of an instant, in local time
GetMonth(t) == MonthOfYearDay(YearDay(t), 1)
GetDate(t) == DayOfYearDay(YearDay(t), 1)

----------------------------------------------------------------------------
(* Helper functions of the server (src/unnamed/part_000) *)

\* n.toString(): the decimal digits of n >= 0
RECURSIVE ToDigits(_)
ToDigits(n) == IF n < 10 THEN <<n>> ELSE ToDigits(n \div 10) \o <<n % 10>>

\* s.padStart(2, '0')
RECURSIVE PadStart2(_)
PadStart2(s) == IF Len(s) >= 2 THEN s ELSE PadStart2(<<0>> \o s)

\* the value of a digit string
RECURSIVE DigitsValue(_)
DigitsValue(s) ==
    IF s = <<>> THEN 0
    ELSE 10 * DigitsValue(SubSeq(s, 1, Len(s) - 1)) + s[Len(s)]

\* parseFloat(`${int}.${frac}`), in hundredths (frac has at most two digits here)
ParseFloatHundredths(int, frac) ==
    100 * DigitsValue(int)
      + (IF Len(frac) = 0 THEN 0
         ELSE IF Len(frac) = 1 THEN 10 * frac[1]
         ELSE 10 * frac[1] + frac[2])

\* getRequiredDistance without padStart: day 7 of March reads "3.7"
RequiredDistanceOf_noPad(month, day) ==
    ParseFloatHundredths(ToDigits(month), ToDigits(day))

\* getRequiredDistance(date) of a month and a day of the month
RequiredDistanceOf(month, day) ==
    ParseFloatHundredths(ToDigits(month), PadStart2(ToDigits(day)))

\* getRequiredDistance(date); NaN (no number) for Invalid Date
getRequiredDistance(date) ==
    IF date.valid THEN Some(RequiredDistanceOf(GetMonth(date.time), GetDate(date.time)))
    ELSE NULL

\* runs.reduce((sum, run) => sum + run.distance, 0)
RECURSIVE SumDistance(_)
SumDistance(runs) ==
    IF runs = <<>> THEN 0 ELSE runs[1].distance + SumDistance(Tail(runs))

Max(a, b) == IF a >= b THEN a ELSE b

\* checkDailyGoal that takes the goal as met only above the required distance
checkDailyGoal_strict(runs, requiredDistance) ==
    LET totalDistance == SumDistance(runs) IN
    [ totalDistance |-> totalDistance,
      requiredDistance |-> requiredDistance,
      goalMet |-> totalDistance > requiredDistance,
      shortfall |-> Max(0, requiredDistance - totalDistance) ]

checkDailyGoal(runs, requiredDistance) ==
    LET totalDistance == SumDistance(runs) IN
    [ totalDistance |-> totalDistance,
      requiredDistance |-> requiredDistance,
      goalMet |-> totalDistance >= requiredDistance,
      shortfall |-> Max(0, requiredDistance - totalDistance) ]

\* getRunsForDate(activities, date): the runs whose UTC day is the date's UTC day
getRunsForDate(activities, date) ==
    LET dateStr == ISODate(date.time) IN
    SelectSeq(activities,
              LAMBDA activity :
                  /\ ISODate(activity.start_date) = dateStr
                  /\ (activity.type = "Run" \/ activity.type = "VirtualRun"))

----------------------------------------------------------------------------
(* The store (src/database.js).  Each function is an operator from the     *)
(* table it writes (U: users, P: daily_progress) to the table afterwards,  *)
(* or from the table it reads to what it returns.                          *)

\* the rowid an INSERT into a table with INTEGER PRIMARY KEY AUTOINCREMENT is
\* given: one more than the largest rowid the table has handed out, which
\* sqlite_sequence holds.  The rowid is taken before the conflict check, so an
\* INSERT that ON CONFLICT turns into an UPDATE uses it up as well
AutoIncrement(seq) == seq + 1

\* last_insert_rowid() after an INSERT ... ON CONFLICT DO UPDATE: the rowid of the
\* new row when a row was inserted, unchanged when a row was updated
LastInsertRowid(rowid, seq, inserted) ==
    IF inserted THEN AutoIncrement(seq) ELSE rowid

\* the row INSERT INTO users creates: the column defaults fill the rest (age
\* stands for age, sex and baseline_mile_pace, which are written together)
NewUserRow(strava_id, access_token) ==
    [ strava_id |-> strava_id,
      access_token |-> access_token,
      bailout_passes |-> DefaultBailoutPasses,
      elimination_date |-> NULL,
      elimination_reason |-> NULL,
      age |-> NULL,
      profile_complete |-> FALSE ]

\* saveUser's statement inserts a row: no row holds the strava_id
saveUserInserts(U, strava_id) ==
    ~ \E i \in DOMAIN U : U[i].strava_id = strava_id

\* saveUser as INSERT OR REPLACE: a conflicting row gets the column defaults again
saveUser_replace(U, seq, strava_id, access_token) ==
    IF saveUserInserts(U, strava_id)
    THEN [ i \in DOMAIN U \cup {AutoIncrement(seq)} |->
             IF i \in DOMAIN U THEN U[i] ELSE NewUserRow(strava_id, access_token) ]
    ELSE [ i \in DOMAIN U |->
             IF U[i].strava_id = strava_id
             THEN NewUserRow(strava_id, access_token)
             ELSE U[i] ]

\* saveUser, the table afterwards: INSERT ... ON CONFLICT(strava_id) DO UPDATE SET
\* the tokens; seq is the rowid sqlite_sequence holds for users
saveUser(U, seq, strava_id, access_token) ==
    IF saveUserInserts(U, strava_id)
    THEN [ i \in DOMAIN U \cup {AutoIncrement(seq)} |->
             IF i \in DOMAIN U THEN U[i] ELSE NewUserRow(strava_id, access_token) ]
    ELSE [ i \in DOMAIN U |->
             IF U[i].strava_id = strava_id
             THEN [U[i] EXCEPT !.access_token = access_token]
             ELSE U[i] ]

\* getUserByStravaId(stravaId).id
UserIdOfStravaId(U, strava_id) ==
    CHOOSE i \in DOMAIN U : U[i].strava_id = strava_id

\* what saveUser returns: result.lastInsertRowid || getUserByStravaId(...).id,
\* for the table and the last_insert_rowid() after the statement
saveUserReturn(U, rowid, strava_id) ==
    IF rowid # 0 THEN rowid ELSE UserIdOfStravaId(U, strava_id)

\* updateUserProfile(userId, age, sex, baseline_pace): the profile columns of the
\* row are set and the profile is marked complete
updateUserProfile(U, userId, age) ==
    [ i \in DOMAIN U |->
        IF i = userId
        THEN [U[i] EXCEPT !.age = Some(age), !.profile_complete = TRUE]
        ELSE U[i] ]

\* getUserById(id): the row with its id; the handlers call it for the id of a
\* session, which saveUser returned
getUserById(U, id) == [id |-> id] @@ U[id]

\* the rows of the ids, in the order of the ids
RECURSIVE RowsInIdOrder(_, _)
RowsInIdOrder(U, ids) ==
    IF ids = {} THEN <<>>
    ELSE LET first == CHOOSE i \in ids : \A j \in ids : i <= j
         IN  <<getUserById(U, first)>> \o RowsInIdOrder(U, ids \ {first})

\* getAllUsers: SELECT * FROM users ORDER BY created_at; rows are created in the
\* order of their ids
getAllUsers(U) == RowsInIdOrder(U, DOMAIN U)

\* useBailoutPass whose UPDATE matches no row
useBailoutPass_noop(U, userId) == U

\* useBailoutPass without its guard "AND bailout_passes > 0"
useBailoutPass_unguarded(U, userId) ==
    [ i \in DOMAIN U |->
        IF i = userId
        THEN [U[i] EXCEPT !.bailout_passes = @ - 1]
        ELSE U[i] ]

\* useBailoutPass: UPDATE users SET bailout_passes = bailout_passes - 1
\*                 WHERE id = ? AND bailout_passes > 0
useBailoutPass(U, userId) ==
    [ i \in DOMAIN U |->
        IF i = userId /\ U[i].bailout_passes > 0
        THEN [U[i] EXCEPT !.bailout_passes = @ - 1]
        ELSE U[i] ]

\* getBailoutPasses
getBailoutPasses(U, userId) ==
    IF userId \in DOMAIN U THEN U[userId].bailout_passes ELSE 0

\* eliminateUser that sets the date and forgets the reason
eliminateUser_dateOnly(U, userId, eliminationDate, reason) ==
    [ i \in DOMAIN U |->
        IF i = userId
        THEN [U[i] EXCEPT !.elimination_date = Some(eliminationDate)]
        ELSE U[i] ]

\* eliminateUser: UPDATE users SET elimination_date = ?, elimination_reason = ?
\*                WHERE id = ?
eliminateUser(U, userId, eliminationDate, reason) ==
    [ i \in DOMAIN U |->
        IF i = userId
        THEN [U[i] EXCEPT !.elimination_date = Some(eliminationDate),
                          !.elimination_reason = Some(reason)]
        ELSE U[i] ]

\* saveDailyProgress throws (RangeError of toISOString) for Invalid Date
saveDailyProgressThrows(date) == ~date.valid

\* saveDailyProgress's statement inserts a row: no row holds (user_id, date)
saveDailyProgressInserts(P, userId, date) ==
    ~ \E r \in P : r.user_id = userId /\ r.date = ISODate(date.time)

\* saveDailyProgress as a plain INSERT into a table without UNIQUE(user_id, date)
saveDailyProgress_insertOnly(P, userId, date, requiredDistance, completedDistance, status) ==
    P \cup { [ user_id |-> userId,
               date |-> ISODate(date.time),
               required_distance |-> requiredDistance,
               completed_distance |-> completedDistance,
               status |-> status ] }

\* saveDailyProgress as INSERT OR REPLACE: the whole row is written anew
saveDailyProgress_replaceRow(P, userId, date, requiredDistance, completedDistance, status) ==
    LET dateStr == ISODate(date.time)
        conflict == { r \in P : r.user_id = userId /\ r.date = dateStr }
    IN  (P \ conflict)
          \cup { [ user_id |-> userId,
                   date |-> dateStr,
                   required_distance |-> requiredDistance,
                   completed_distance |-> completedDistance,
                   status |-> status ] }

\* saveDailyProgress whose conflict clause updates completed_distance alone
saveDailyProgress_keepStatus(P, userId, date, requiredDistance, completedDistance, status) ==
    LET dateStr == ISODate(date.time)
        conflict == { r \in P : r.user_id = userId /\ r.date = dateStr }
    IN  IF conflict = {}
        THEN P \cup { [ user_id |-> userId,
                        date |-> dateStr,
                        required_distance |-> requiredDistance,
                        completed_distance |-> completedDistance,
                        status |-> status ] }
        ELSE (P \ conflict)
               \cup { [r EXCEPT !.completed_distance = completedDistance] : r \in conflict }

\* saveDailyProgress: INSERT ... ON CONFLICT(user_id, date) DO UPDATE SET
\*                    completed_distance, status
saveDailyProgress(P, userId, date, requiredDistance, completedDistance, status) ==
    LET dateStr == ISODate(date.time)
        conflict == { r \in P : r.user_id = userId /\ r.date = dateStr }
    IN  IF conflict = {}
        THEN P \cup { [ user_id |-> userId,
                        date |-> dateStr,
                        required_distance |-> requiredDistance,
                        completed_distance |-> completedDistance,
                        status |-> status ] }
        ELSE (P \ conflict)
               \cup { [r EXCEPT !.completed_distance = completedDistance,
                                !.status = status] : r \in conflict }

\* ORDER BY date DESC
RECURSIVE OrderByDateDesc(_)
OrderByDateDesc(rows) ==
    IF rows = {} THEN <<>>
    ELSE LET first == CHOOSE r \in rows : \A q \in rows : q.date <= r.date
         IN  <<first>> \o OrderByDateDesc(rows \ {first})

\* getDailyProgress: SELECT ... WHERE user_id = ? AND date >= ? AND date <= ?
\*                   ORDER BY date DESC
getDailyProgress(P, userId, startDate, endDate) ==
    OrderByDateDesc({ r \in P : /\ r.user_id = userId
                                /\ r.date >= ISODate(startDate.time)
                                /\ r.date <= ISODate(endDate.time) })

\* the loop without its break: a completed or excused day is stepped over
RECURSIVE CountMisses_noBreak(_, _, _)
CountMisses_noBreak(recentDays, i, consecutiveMisses) ==
    IF i > Len(recentDays) THEN consecutiveMisses
    ELSE IF recentDays[i].status = "missed"
         THEN CountMisses_noBreak(recentDays, i + 1, consecutiveMisses + 1)
    ELSE CountMisses_noBreak(recentDays, i + 1, consecutiveMisses)

\* the loop that stops at every day that is not 'missed'
RECURSIVE CountMisses_breakOnOther(_, _, _)
CountMisses_breakOnOther(recentDays, i, consecutiveMisses) ==
    IF i > Len(recentDays) THEN consecutiveMisses
    ELSE IF recentDays[i].status = "missed"
         THEN CountMisses_breakOnOther(recentDays, i + 1, consecutiveMisses + 1)
    ELSE consecutiveMisses

\* the loop of getConsecutiveMisses over recentDays, from index i on
RECURSIVE CountMisses(_, _, _)
CountMisses(recentDays, i, consecutiveMisses) ==
    IF i > Len(recentDays) THEN consecutiveMisses
    ELSE IF recentDays[i].status = "missed"
         THEN CountMisses(recentDays, i + 1, consecutiveMisses + 1)
    ELSE IF recentDays[i].status = "completed" \/ recentDays[i].status = "bailout"
         THEN consecutiveMisses
    ELSE CountMisses(recentDays, i + 1, consecutiveMisses)

\* ORDER BY date DESC LIMIT n over rows of one user dated d or earlier (the
\* dates of one user's rows are distinct): the rows are taken day by day, from
\* day d backwards, until n are taken or none is left
RECURSIVE NewestFirst(_, _, _)
NewestFirst(rows, d, n) ==
    IF n = 0 \/ rows = {} THEN <<>>
    ELSE LET hit == { r \in rows : r.date = d } IN
         IF hit = {} THEN NewestFirst(rows, d - 1, n)
         ELSE <<CHOOSE r \in hit : TRUE>> \o NewestFirst(rows \ hit, d - 1, n - 1)

\* SELECT ... WHERE user_id = ? AND date <= ? ORDER BY date DESC LIMIT 10
RecentDays(P, userId, endDate) ==
    NewestFirst({ r \in P : /\ r.user_id = userId
                            /\ r.date <= ISODate(endDate.time) },
                ISODate(endDate.time), RecentLimit)

getConsecutiveMisses(P, userId, endDate) ==
    CountMisses(RecentDays(P, userId, endDate), 1, 0)

\* activityData.distance * 0.000621371: meters to miles; a distance of the table
\* activities is counted in billionths of a mile
MilesPerMeter == 621371
MetersToMiles(meters) == meters * MilesPerMeter

\* saveActivity's statement inserts a row: no row holds the strava_activity_id
saveActivityInserts(A, strava_activity_id) ==
    ~ \E i \in DOMAIN A : A[i].strava_activity_id = strava_activity_id

\* saveActivity, the table afterwards: INSERT ... ON CONFLICT(strava_activity_id)
\* DO UPDATE SET distance, moving_time, elapsed_time; seq is the rowid
\* sqlite_sequence holds for activities (moving_time stands for both times)
saveActivity(A, seq, userId, activityData) ==
    IF saveActivityInserts(A, activityData.id)
    THEN [ i \in DOMAIN A \cup {AutoIncrement(seq)} |->
             IF i \in DOMAIN A THEN A[i]
             ELSE [ user_id |-> userId,
                    strava_activity_id |-> activityData.id,
                    distance |-> MetersToMiles(activityData.distance),
                    moving_time |-> activityData.moving_time ] ]
    ELSE [ i \in DOMAIN A |->
             IF A[i].strava_activity_id = activityData.id
             THEN [A[i] EXCEPT !.distance = MetersToMiles(activityData.distance),
                               !.moving_time = activityData.moving_time]
             ELSE A[i] ]

----------------------------------------------------------------------------
(* The elimination controller (src/unnamed/part_000) *)

\* validateStreak that warns from the first miss on
validateStreakResult_warnEarly(consecutiveMisses) ==
    IF consecutiveMisses >= EliminationThreshold
    THEN [status |-> "eliminated", reason |-> Some(EliminationReasonText)]
    ELSE IF consecutiveMisses >= AtRiskThreshold - 1
    THEN [status |-> "at_risk", reason |-> Some(AtRiskReasonText)]
    ELSE [status |-> "active", reason |-> NULL]

\* what validateStreak returns
validateStreakResult(consecutiveMisses) ==
    IF consecutiveMisses >= EliminationThreshold
    THEN [status |-> "eliminated", reason |-> Some(EliminationReasonText)]
    ELSE IF consecutiveMisses = AtRiskThreshold
    THEN [status |-> "at_risk", reason |-> Some(AtRiskReasonText)]
    ELSE [status |-> "active", reason |-> NULL]

\* validateStreak that eliminates only above the threshold
validateStreak_aboveThree(U, userId, consecutiveMisses, t) ==
    IF consecutiveMisses > EliminationThreshold
    THEN eliminateUser(U, userId, ISODate(t), EliminationReasonText)
    ELSE U

\* validateStreak that already eliminates at the at-risk threshold
validateStreak_atTwo(U, userId, consecutiveMisses, t) ==
    IF consecutiveMisses >= AtRiskThreshold
    THEN eliminateUser(U, userId, ISODate(t), EliminationReasonText)
    ELSE U

\* what validateStreak writes: the users table after the call made at instant t
validateStreak(U, userId, consecutiveMisses, t) ==
    IF consecutiveMisses >= EliminationThreshold
    THEN eliminateUser(U, userId, ISODate(t), EliminationReasonText)
    ELSE U

\* getConsecutiveMisses(user.id, today) followed by validateStreak(user.id, ...)
\* for the users of queue, one after the other, all at instant t (the loops of
\* GET / and GET /leaderboard); today is the Date the handler took at its start
RECURSIVE ValidateFrom(_, _, _, _, _)
ValidateFrom(U, P, queue, today, t) ==
    IF queue = <<>> THEN U
    ELSE ValidateFrom(
           validateStreak(U, Head(queue).id,
                          getConsecutiveMisses(P, Head(queue).id, DateAt(today)), t),
           P, Tail(queue), today, t)

\* the consecutiveMisses and streakStatus such a loop computes for each user
StreakStatuses(queue, P, today) ==
    [ k \in DOMAIN queue |->
        LET consecutiveMisses == getConsecutiveMisses(P, queue[k].id, DateAt(today)) IN
        [ userId |-> queue[k].id,
          consecutiveMisses |-> consecutiveMisses,
          status |-> validateStreakResult(consecutiveMisses).status ] ]

----------------------------------------------------------------------------
(* Streak statistics and the winner (src/unnamed/part_000) *)

\* [...s].sort((a, b) => key(a) - key(b)): Array.prototype.sort is stable, so
\* the element at index i goes behind every element with a smaller key and
\* every element with an equal key and a smaller index; key[i] is the key of s[i]
SortByKey(s, key) ==
    LET n == Len(s)
        pos(i) == 1 + Cardinality({ j \in 1 .. n :
                                      key[j] < key[i] \/ (key[j] = key[i] /\ j < i) })
    IN  [ p \in 1 .. n |-> s[CHOOSE i \in 1 .. n : pos(i) = p] ]

\* the copy that is not reversed
Reverse_identity(s) == s

\* [...s].reverse()
Reverse(s) == [ i \in 1 .. Len(s) |-> s[Len(s) + 1 - i] ]

\* the first loop in which every day that is not completed or excused resets the run
RECURSIVE LongestStreakLoop_resetOnOther(_, _, _, _)
LongestStreakLoop_resetOnOther(sorted, i, tempStreak, longestStreak) ==
    IF i > Len(sorted) THEN longestStreak
    ELSE IF sorted[i].status = "completed" \/ sorted[i].status = "bailout"
         THEN LongestStreakLoop_resetOnOther(sorted, i + 1, tempStreak + 1,
                                             Max(longestStreak, tempStreak + 1))
    ELSE LongestStreakLoop_resetOnOther(sorted, i + 1, 0, longestStreak)

\* the first loop of calculateStreaks over sorted, from index i on
RECURSIVE LongestStreakLoop(_, _, _, _)
LongestStreakLoop(sorted, i, tempStreak, longestStreak) ==
    IF i > Len(sorted) THEN longestStreak
    ELSE IF sorted[i].status = "completed" \/ sorted[i].status = "bailout"
         THEN LongestStreakLoop(sorted, i + 1, tempStreak + 1,
                                Max(longestStreak, tempStreak + 1))
    ELSE IF sorted[i].status = "missed"
         THEN LongestStreakLoop(sorted, i + 1, 0, longestStreak)
    ELSE LongestStreakLoop(sorted, i + 1, tempStreak, longestStreak)

\* the second loop without its break: a missed day is stepped over
RECURSIVE CurrentStreakLoop_noBreak(_, _, _)
CurrentStreakLoop_noBreak(reversed, i, currentStreak) ==
    IF i > Len(reversed) THEN currentStreak
    ELSE IF reversed[i].status = "completed" \/ reversed[i].status = "bailout"
         THEN CurrentStreakLoop_noBreak(reversed, i + 1, currentStreak + 1)
    ELSE CurrentStreakLoop_noBreak(reversed, i + 1, currentStreak)

\* the second loop of calculateStreaks over reversed, from index i on
RECURSIVE CurrentStreakLoop(_, _, _)
CurrentStreakLoop(reversed, i, currentStreak) ==
    IF i > Len(reversed) THEN currentStreak
    ELSE IF reversed[i].status = "completed" \/ reversed[i].status = "bailout"
         THEN CurrentStreakLoop(reversed, i + 1, currentStreak + 1)
    ELSE IF reversed[i].status = "missed"
         THEN currentStreak
    ELSE CurrentStreakLoop(reversed, i + 1, currentStreak)

calculateStreaks(progressData) ==
    LET sorted == SortByKey(progressData,
                            [ i \in DOMAIN progressData |->
                                DateOfDay(progressData[i].date) ])
        reversed == Reverse(sorted)
    IN  [ currentStreak |-> CurrentStreakLoop(reversed, 1, 0),
          longestStreak |-> LongestStreakLoop(sorted, 1, 0, 0) ]

\* getTotalDaysRun: progressData.filter(d => d.status === 'completed').length
getTotalDaysRun(progressData) ==
    Cardinality({ i \in DOMAIN progressData : progressData[i].status = "completed" })

\* progressDataMap[u.id] || []
ProgressDataOf(progressDataMap, id) ==
    IF id \in DOMAIN progressDataMap THEN progressDataMap[id] ELSE <<>>

\* the pool that prefers the eliminated users
CandidatePool_eliminatedFirst(allUsers) ==
    LET active == SelectSeq(allUsers, LAMBDA u : u.elimination_date = NULL)
        quit == SelectSeq(allUsers, LAMBDA u : u.elimination_date # NULL)
        eliminated == SortByKey(quit, [ i \in DOMAIN quit |->
                                          DateOfDay(quit[i].elimination_date[1]) ])
    IN  IF Len(eliminated) > 0 THEN eliminated ELSE active

\* determineWinner, the candidates: the active users or, when there is none, the
\* eliminated users sorted by new Date(b.elimination_date) - new Date(a.elimination_date)
CandidatePool(allUsers) ==
    LET active == SelectSeq(allUsers, LAMBDA u : u.elimination_date = NULL)
        quit == SelectSeq(allUsers, LAMBDA u : u.elimination_date # NULL)
        eliminated == SortByKey(quit, [ i \in DOMAIN quit |->
                                          0 - DateOfDay(quit[i].elimination_date[1]) ])
    IN  IF Len(active) > 0 THEN active ELSE eliminated

\* the candidates sorted by total days run, the fewest first
ByTotalDaysRun_ascending(candidates, progressDataMap) ==
    LET withDayCount ==
            [ i \in DOMAIN candidates |->
                [ totalDaysRun |->
                    getTotalDaysRun(ProgressDataOf(progressDataMap, candidates[i].id)) ]
                @@ candidates[i] ]
    IN  SortByKey(withDayCount,
                  [ i \in DOMAIN withDayCount |-> withDayCount[i].totalDaysRun ])

\* determineWinner, tiebreaker 2: withDayCount after
\* sort((a, b) => b.totalDaysRun - a.totalDaysRun)
ByTotalDaysRun(candidates, progressDataMap) ==
    LET withDayCount ==
            [ i \in DOMAIN candidates |->
                [ totalDaysRun |->
                    getTotalDaysRun(ProgressDataOf(progressDataMap, candidates[i].id)) ]
                @@ candidates[i] ]
    IN  SortByKey(withDayCount,
                  [ i \in DOMAIN withDayCount |-> 0 - withDayCount[i].totalDaysRun ])

\* the candidates sorted by their current streak
ByLongestStreak_current(withDayCount, progressDataMap) ==
    LET withStreaks ==
            [ i \in DOMAIN withDayCount |->
                [ streaks |->
                    calculateStreaks(ProgressDataOf(progressDataMap, withDayCount[i].id)) ]
                @@ withDayCount[i] ]
    IN  SortByKey(withStreaks,
                  [ i \in DOMAIN withStreaks |-> 0 - withStreaks[i].streaks.currentStreak ])

\* determineWinner, tiebreaker 3: withStreaks after
\* sort((a, b) => b.streaks.longestStreak - a.streaks.longestStreak)
ByLongestStreak(withDayCount, progressDataMap) ==
    LET withStreaks ==
            [ i \in DOMAIN withDayCount |->
                [ streaks |->
                    calculateStreaks(ProgressDataOf(progressDataMap, withDayCount[i].id)) ]
                @@ withDayCount[i] ]
    IN  SortByKey(withStreaks,
                  [ i \in DOMAIN withStreaks |-> 0 - withStreaks[i].streaks.longestStreak ])

\* determineWinner(users, progressDataMap): NULL for null, <<user>> for a user
determineWinner(allUsers, progressDataMap) ==
    LET candidates == CandidatePool(allUsers) IN
    IF Len(candidates) = 0 THEN NULL
    ELSE IF Len(candidates) = 1 THEN Some(candidates[1])
    ELSE LET withDayCount == ByTotalDaysRun(candidates, progressDataMap) IN
         IF withDayCount[1].totalDaysRun > withDayCount[2].totalDaysRun
         THEN Some(withDayCount[1])
         ELSE Some(ByLongestStreak(withDayCount, progressDataMap)[1])

----------------------------------------------------------------------------
(* The activity feed: what the provider answers to a request.              *)

Zones == -1 .. 0                      \* zone offsets of the server, in ticks
StravaIds == 1 .. MaxUsers
Tokens == 1 .. MaxToken
LongRun == 12 * 100 + 31              \* a run that meets every required distance
ProfileAges == {35}                   \* the age a profile form sends

\* the days a feed is drawn for: today (0) and the 29 days before it
FeedDays == 0 .. (WindowDays - 1)

\* the feed with a run on every day but the newest n days, which hold nothing
RunsBefore(n) == [ i \in FeedDays |-> IF i >= n THEN "run" ELSE "none" ]

\* the answers drawn: a run on every day, a run on every day but today and the
\* two days before it, no activity at all, or a ride on every day
Feeds ==
    { RunsBefore(0), RunsBefore(AtRiskThreshold + 1), RunsBefore(WindowDays),
      [i \in FeedDays |-> "ride"] }

\* the list of activities in which the day i days before instant t holds what
\* choice[i] says: nothing, a ride, or a run of LongRun; the newest comes first
ActivitiesOf(choice, t) ==
    SelectSeq([ k \in 1 .. WindowDays |->
                  [ start_date |-> DateOfDay(ISODate(MinusDays(t, k - 1))),
                    type |-> IF choice[k - 1] = "run" THEN "Run"
                             ELSE IF choice[k - 1] = "ride" THEN "Ride" ELSE "none",
                    distance |-> LongRun ] ],
              LAMBDA a : a.type # "none")

----------------------------------------------------------------------------
(* The request handlers (src/unnamed/part_000) *)

\* the status GET /progress gives the day `date`, evaluated at instant today
DayStatus(date, today, goalMet) ==
    LET isFuture == date.time > today
        isToday == LocalDay(date.time) = LocalDay(today)
    IN  IF isFuture THEN "pending"
        ELSE IF goalMet THEN "completed"
        ELSE IF isToday THEN "pending"
        ELSE "missed"

\* the database after stmt.run of saveDailyProgress: the table, the rowid
\* sqlite_sequence holds for daily_progress, and last_insert_rowid()
RunSaveDailyProgress(S, userId, date, requiredDistance, completedDistance, status) ==
    [ progress |-> saveDailyProgress(S.progress, userId, date, requiredDistance,
                                     completedDistance, status),
      seq |-> AutoIncrement(S.seq),
      rowid |-> LastInsertRowid(S.rowid, S.seq,
                                saveDailyProgressInserts(S.progress, userId, date)) ]

\* the loop of GET /progress: for (let i = 29; i >= 0; i--) ... saveDailyProgress;
\* the statement of one day has run (it has taken its rowid) before the loop
\* goes on to the next day
RECURSIVE EvaluateDays(_, _, _, _, _)
EvaluateDays(S, userId, activities, today, i) ==
    IF i < 0 THEN S
    ELSE LET date == DateAt(MinusDays(today, i))
             requiredDistance == getRequiredDistance(date)[1]
             runsForDay == getRunsForDate(activities, date)
             goalCheck == checkDailyGoal(runsForDay, requiredDistance)
             status == DayStatus(date, today, goalCheck.goalMet)
             saved == RunSaveDailyProgress(S, userId, date, requiredDistance,
                                           goalCheck.totalDistance, status)
         IN  IF saved.seq > S.seq
             THEN EvaluateDays(saved, userId, activities, today, i - 1)
             ELSE saved

\* GET /: the activities of a user are requested when
\* user.age && user.sex && user.baseline_mile_pace && user.access_token
FetchesActivities(user) == user.age # NULL

\* GET /, the loop over users from one await to the next, run at instant t on
\* the users of queue: each user is validated, and the loop stops to wait at the
\* first user whose activities are requested
HomeStep(U, P, queue, today, t) ==
    LET stops == { k \in DOMAIN queue : FetchesActivities(queue[k]) }
        awaiting == stops # {}
        k == IF awaiting THEN CHOOSE i \in stops : \A j \in stops : i <= j
             ELSE Len(queue)
        done == SubSeq(queue, 1, k)
    IN  [ users |-> ValidateFrom(U, P, done, today, t),
          calls |-> StreakStatuses(done, P, today),
          awaiting |-> awaiting,
          user |-> IF awaiting THEN queue[k].id ELSE 0,
          rest |-> SubSeq(queue, k + 1, Len(queue)) ]

Init ==
    /\ users = <<>>
    /\ progress = {}
    /\ now = 0
    /\ tz \in Zones
    /\ last = [op |-> "init"]
    /\ sqlite_sequence = [users |-> 0, daily_progress |-> 0, activities |-> 0]
    /\ lastInsertRowid = 0
    /\ homeRequests = {}
    /\ activityRows = <<>>

\* the clock advances
Tick ==
    /\ now < MaxTick
    /\ now' = now + 1
    /\ last' = [op |-> "tick"]
    /\ UNCHANGED <<users, progress, tz, sqlite_sequence, lastInsertRowid, homeRequests,
                   activityRows>>

\* GET /auth/strava/callback: req.session.userId = saveUser(tokenData); maxRowid
\* caps the rowids of users
SaveUserRequest(strava_id, access_token, maxRowid) ==
    /\ sqlite_sequence.users < maxRowid
    /\ users' = saveUser(users, sqlite_sequence.users, strava_id, access_token)
    /\ sqlite_sequence' = [sqlite_sequence EXCEPT !.users = AutoIncrement(@)]
    /\ lastInsertRowid' = LastInsertRowid(lastInsertRowid, sqlite_sequence.users,
                                          saveUserInserts(users, strava_id))
    /\ last' = [ op |-> "saveUser",
                 strava_id |-> strava_id,
                 userId |-> saveUserReturn(users', lastInsertRowid', strava_id),
                 created |-> saveUserInserts(users, strava_id) ]
    /\ UNCHANGED <<progress, now, tz, homeRequests, activityRows>>

AuthCallback(strava_id, access_token) ==
    SaveUserRequest(strava_id, access_token, MaxAuthentications)

\* POST /setup-profile: updateUserProfile(req.session.userId, age, sex, pace)
SetupProfile(userId, age) ==
    /\ userId \in DOMAIN users
    /\ users' = updateUserProfile(users, userId, age)
    /\ last' = [op |-> "setup-profile", userId |-> userId]
    /\ UNCHANGED <<progress, now, tz, sqlite_sequence, lastInsertRowid, homeRequests,
                   activityRows>>

\* GET /progress whose fetch fails or answers something that is no list:
\* activities.forEach throws, the catch block answers, nothing is written
ProgressFetchFails(userId) ==
    /\ userId \in DOMAIN users
    /\ last' = [op |-> "progress", userId |-> userId, fetched |-> FALSE]
    /\ UNCHANGED <<users, progress, now, tz, sqlite_sequence, lastInsertRowid,
                   homeRequests, activityRows>>

\* GET /progress with a list of activities
Progress(userId, choice) ==
    /\ userId \in DOMAIN users
    /\ LET activities == ActivitiesOf(choice, now)
           S == EvaluateDays([ progress |-> progress,
                               seq |-> sqlite_sequence.daily_progress,
                               rowid |-> lastInsertRowid ],
                             userId, activities, now, WindowDays - 1)
           consecutiveMisses == getConsecutiveMisses(S.progress, userId, DateAt(now))
       IN  /\ progress' = S.progress
           /\ sqlite_sequence' = [sqlite_sequence EXCEPT !.daily_progress = S.seq]
           /\ lastInsertRowid' = S.rowid
           /\ users' = validateStreak(users, userId, consecutiveMisses, now)
           /\ last' = [ op |-> "progress", userId |-> userId, fetched |-> TRUE,
                        consecutiveMisses |-> consecutiveMisses,
                        status |-> validateStreakResult(consecutiveMisses).status ]
    /\ UNCHANGED <<now, tz, homeRequests, activityRows>>

\* the rejected request of a handler that spends the pass before it checks
UseBailoutRejected_decrements(userId, hasDate) ==
    /\ userId \in DOMAIN users
    /\ ~hasDate \/ users[userId].bailout_passes <= 0
    /\ users' = useBailoutPass(users, userId)
    /\ last' = [ op |-> "use-bailout", userId |-> userId, accepted |-> FALSE,
                 hasDate |-> hasDate ]
    /\ UNCHANGED <<progress, now, tz, sqlite_sequence, lastInsertRowid, homeRequests,
                   activityRows>>

\* GET /use-bailout rejected: no date given, or no pass left
UseBailoutRejected(userId, hasDate) ==
    /\ userId \in DOMAIN users
    /\ ~hasDate \/ users[userId].bailout_passes <= 0
    /\ last' = [ op |-> "use-bailout", userId |-> userId, accepted |-> FALSE,
                 hasDate |-> hasDate ]
    /\ UNCHANGED <<users, progress, now, tz, sqlite_sequence, lastInsertRowid,
                   homeRequests, activityRows>>

\* the daily_progress side of an accepted bailout request: saveDailyProgress
\* (user.id, date, requiredDistance, 0, 'bailout'), which throws for Invalid Date
BailoutSave(userId, date) ==
    LET S == [ progress |-> progress,
               seq |-> sqlite_sequence.daily_progress,
               rowid |-> lastInsertRowid ]
    IN  IF saveDailyProgressThrows(date) THEN S
        ELSE RunSaveDailyProgress(S, userId, date, getRequiredDistance(date)[1],
                                  0, "bailout")

\* the request with both writes in one transaction: a throw of the second
\* write takes the first one back
UseBailout_atomic(userId, date) ==
    /\ userId \in DOMAIN users
    /\ ~(users[userId].bailout_passes <= 0)
    /\ users' = IF saveDailyProgressThrows(date) THEN users
                ELSE useBailoutPass(users, userId)
    /\ progress' = BailoutSave(userId, date).progress
    /\ sqlite_sequence' = [sqlite_sequence EXCEPT
                             !.daily_progress = BailoutSave(userId, date).seq]
    /\ lastInsertRowid' = BailoutSave(userId, date).rowid
    /\ last' = [ op |-> "use-bailout", userId |-> userId, accepted |-> TRUE,
                 date |-> date, threw |-> saveDailyProgressThrows(date) ]
    /\ UNCHANGED <<now, tz, homeRequests, activityRows>>

\* GET /use-bailout?date=...: useBailoutPass, then saveDailyProgress(..., 'bailout')
UseBailout(userId, date) ==
    /\ userId \in DOMAIN users
    /\ ~(users[userId].bailout_passes <= 0)
    /\ users' = useBailoutPass(users, userId)
    /\ progress' = BailoutSave(userId, date).progress
    /\ sqlite_sequence' = [sqlite_sequence EXCEPT
                             !.daily_progress = BailoutSave(userId, date).seq]
    /\ lastInsertRowid' = BailoutSave(userId, date).rowid
    /\ last' = [ op |-> "use-bailout", userId |-> userId, accepted |-> TRUE,
                 date |-> date, threw |-> saveDailyProgressThrows(date) ]
    /\ UNCHANGED <<now, tz, homeRequests, activityRows>>

\* what an activities request comes to: it answers a list, or it fails or
\* answers something that is no list
FetchOutcomes == {"list", "error"}

\* the GET / request that now waits for the activities of step.user
WaitingHome(step, today, changed) ==
    [ today |-> today, user |-> step.user, rest |-> step.rest, changed |-> changed ]

\* GET / up to its first await: today and the users are read, the users are
\* validated one after the other up to the first whose activities are
\* requested; changed tells whether a validation has changed a row
HomeBegin ==
    /\ DOMAIN users # {}
    /\ LET step == HomeStep(users, progress, getAllUsers(users), now, now) IN
       /\ step.awaiting => Cardinality(homeRequests) < MaxHomeRequests
       /\ users' = step.users
       /\ homeRequests' = IF step.awaiting
                          THEN homeRequests \cup {WaitingHome(step, now, users' # users)}
                          ELSE homeRequests
       /\ last' = [ op |-> "home", calls |-> step.calls, awaiting |-> step.awaiting,
                    changed |-> users' # users ]
    /\ UNCHANGED <<progress, now, tz, sqlite_sequence, lastInsertRowid, activityRows>>

\* GET / from the answer of an activities request on: a failure is caught inside
\* the loop, and the loop goes on with the users read at the start and its Date
\* of then, while validateStreak dates an elimination by the clock
HomeAnswer(request, outcome) ==
    /\ request \in homeRequests
    /\ LET step == HomeStep(users, progress, request.rest, request.today, now)
           changed == request.changed \/ step.users # users
       IN  /\ users' = step.users
           /\ homeRequests' =
                (homeRequests \ {request})
                  \cup (IF step.awaiting
                        THEN {WaitingHome(step, request.today, changed)} ELSE {})
           /\ last' = [ op |-> "home-answer", userId |-> request.user,
                        fetch |-> outcome, calls |-> step.calls,
                        awaiting |-> step.awaiting, changed |-> changed ]
    /\ UNCHANGED <<progress, now, tz, sqlite_sequence, lastInsertRowid, activityRows>>

\* GET /leaderboard: every user's consecutive misses are validated
Leaderboard ==
    /\ users' = ValidateFrom(users, progress, getAllUsers(users), now, now)
    /\ last' = [ op |-> "leaderboard",
                 calls |-> StreakStatuses(getAllUsers(users), progress, now) ]
    /\ UNCHANGED <<progress, now, tz, sqlite_sequence, lastInsertRowid, homeRequests,
                   activityRows>>

\* GET /dashboard of a user whose profile is not complete: redirect to /setup-profile
DashboardRedirected(userId) ==
    /\ userId \in DOMAIN users
    /\ ~users[userId].profile_complete
    /\ last' = [ op |-> "dashboard", userId |-> userId, redirected |-> TRUE,
                 fetched |-> FALSE ]
    /\ UNCHANGED <<users, progress, now, tz, sqlite_sequence, lastInsertRowid,
                   homeRequests, activityRows>>

\* GET /dashboard whose fetch fails or answers something that is no list:
\* activities.forEach throws, the catch block answers, nothing is written
DashboardFetchFails(userId) ==
    /\ userId \in DOMAIN users
    /\ users[userId].profile_complete
    /\ last' = [ op |-> "dashboard", userId |-> userId, redirected |-> FALSE,
                 fetched |-> FALSE ]
    /\ UNCHANGED <<users, progress, now, tz, sqlite_sequence, lastInsertRowid,
                   homeRequests, activityRows>>

\* GET /dashboard: after a fetch that answered a list, the user is validated
Dashboard(userId) ==
    /\ userId \in DOMAIN users
    /\ users[userId].profile_complete
    /\ LET consecutiveMisses == getConsecutiveMisses(progress, userId, DateAt(now)) IN
       /\ users' = validateStreak(users, userId, consecutiveMisses, now)
       /\ last' = [ op |-> "dashboard", userId |-> userId, redirected |-> FALSE,
                    fetched |-> TRUE,
                    consecutiveMisses |-> consecutiveMisses,
                    status |-> validateStreakResult(consecutiveMisses).status ]
    /\ UNCHANGED <<progress, now, tz, sqlite_sequence, lastInsertRowid, homeRequests,
                   activityRows>>

\* the dates a bailout request names: day 0 or a day the clock never reaches
\* (new Date('YYYY-MM-DD') is the day's midnight UTC), or a string that is no date
BailoutDays == {0, ISODate(MaxTick) + 1}
BailoutDates == { DateAt(DateOfDay(d)) : d \in BailoutDays } \cup {InvalidDate}

\* fewer than n evaluations' worth of daily_progress rowids are used: the cap
\* on the GET /progress requests with a list of activities
EvaluationsBelow(n) == sqlite_sequence.daily_progress < n * WindowDays

\* the passes a user has spent
PassesSpent(userId) == DefaultBailoutPasses - users[userId].bailout_passes

Next ==
    \/ Tick
    \/ \E s \in StravaIds, k \in Tokens : AuthCallback(s, k)
    \/ \E u \in DOMAIN users, a \in ProfileAges : SetupProfile(u, a)
    \/ \E u \in DOMAIN users : ProgressFetchFails(u)
    \/ \E u \in DOMAIN users, c \in Feeds :
         EvaluationsBelow(MaxEvaluations) /\ Progress(u, c)
    \/ \E u \in DOMAIN users, h \in BOOLEAN : UseBailoutRejected(u, h)
    \/ \E u \in DOMAIN users, d \in BailoutDates :
         PassesSpent(u) < MaxBailouts /\ UseBailout(u, d)
    \/ HomeBegin
    \/ \E r \in homeRequests, o \in FetchOutcomes : HomeAnswer(r, o)
    \/ Leaderboard
    \/ \E u \in DOMAIN users : DashboardRedirected(u)
    \/ \E u \in DOMAIN users : DashboardFetchFails(u)
    \/ \E u \in DOMAIN users : Dashboard(u)

Spec == Init /\ [][Next]_vars

----------------------------------------------------------------------------
(* The requests that fetch activities: athletes who authenticate, complete *)
(* their profiles and open GET /progress, GET / and GET /dashboard, whose  *)
(* feed answers a list with no activity or with a run every day, or fails  *)

\* the clock advances by a day
FeedTick ==
    /\ ISODate(now) < FeedMaxDay
    /\ now' = now + TicksPerDay
    /\ last' = [op |-> "tick"]
    /\ UNCHANGED <<users, progress, tz, sqlite_sequence, lastInsertRowid, homeRequests,
                   activityRows>>

FeedAnswers == { [i \in FeedDays |-> "none"], [i \in FeedDays |-> "run"] }

FeedNext ==
    \/ FeedTick
    \/ \E s \in 1 .. FeedUsers : SaveUserRequest(s, 1, FeedUsers)
    \/ \E u \in DOMAIN users, a \in ProfileAges : SetupProfile(u, a)
    \/ \E u \in DOMAIN users : ProgressFetchFails(u)
    \/ \E u \in DOMAIN users, c \in FeedAnswers :
         EvaluationsBelow(MaxEvaluations) /\ Progress(u, c)
    \/ HomeBegin
    \/ \E r \in homeRequests, o \in FetchOutcomes : HomeAnswer(r, o)
    \/ \E u \in DOMAIN users : DashboardRedirected(u)
    \/ \E u \in DOMAIN users : DashboardFetchFails(u)
    \/ \E u \in DOMAIN users : Dashboard(u)

SpecFeed == Init /\ [][FeedNext]_vars

----------------------------------------------------------------------------
(* The bailout requests: an athlete who authenticates, asks for bailouts   *)
(* until no pass is left, and opens GET /progress                          *)

PassesTick ==
    /\ now < PassesMaxTick
    /\ now' = now + 1
    /\ last' = [op |-> "tick"]
    /\ UNCHANGED <<users, progress, tz, sqlite_sequence, lastInsertRowid, homeRequests,
                   activityRows>>

PassesFeeds == { RunsBefore(0), RunsBefore(WindowDays) }

PassesNext ==
    \/ PassesTick
    \/ \E s \in StravaIds, k \in Tokens : AuthCallback(s, k)
    \/ \E u \in DOMAIN users, c \in PassesFeeds :
         EvaluationsBelow(MaxEvaluations) /\ Progress(u, c)
    \/ \E u \in DOMAIN users, h \in BOOLEAN : UseBailoutRejected(u, h)
    \/ \E u \in DOMAIN users, d \in BailoutDates : UseBailout(u, d)

SpecPasses == Init /\ [][PassesNext]_vars

----------------------------------------------------------------------------
(* An absence: one athlete who opens GET /progress, stays away for as many *)
(* days as an evaluation covers, and opens it again                        *)

AbsenceTicks == WindowDays * TicksPerDay

AbsenceTick ==
    /\ now % AbsenceTicks < AbsenceMaxTick
    /\ now' = now + 1
    /\ last' = [op |-> "tick"]
    /\ UNCHANGED <<users, progress, tz, sqlite_sequence, lastInsertRowid, homeRequests,
                   activityRows>>

\* the clock advances while no request is made
Absence ==
    /\ now < AbsenceTicks
    /\ now' = now + AbsenceTicks
    /\ last' = [op |-> "tick"]
    /\ UNCHANGED <<users, progress, tz, sqlite_sequence, lastInsertRowid, homeRequests,
                   activityRows>>

AbsenceNext ==
    \/ AbsenceTick
    \/ Absence
    \/ AuthCallback(1, 1)
    \/ ProgressFetchFails(1)
    \/ \E c \in Feeds : EvaluationsBelow(AbsenceEvaluations) /\ Progress(1, c)

SpecAbsence == Init /\ [][AbsenceNext]_vars

----------------------------------------------------------------------------
(* The ledger calls: saveUser, useBailoutPass and validateStreak called    *)
(* one at a time, with any user id and any consecutiveMisses, and the      *)
(* other inserts of the connection, saveDailyProgress and saveActivity     *)

LedgerInit ==
    /\ users = <<>>
    /\ progress = {}
    /\ now = 0
    /\ tz = 0
    /\ last = [op |-> "init"]
    /\ sqlite_sequence = [users |-> 0, daily_progress |-> 0, activities |-> 0]
    /\ lastInsertRowid = 0
    /\ homeRequests = {}
    /\ activityRows = <<>>

\* the ledger calls are made a day apart
LedgerTick ==
    /\ ISODate(now) < LedgerMaxDay
    /\ now' = now + TicksPerDay
    /\ last' = [op |-> "tick"]
    /\ UNCHANGED <<users, progress, tz, sqlite_sequence, lastInsertRowid, homeRequests,
                   activityRows>>

LedgerSaveUser(strava_id, access_token) ==
    SaveUserRequest(strava_id, access_token, LedgerMaxRowid)

LedgerUseBailoutPass(userId) ==
    /\ users' = useBailoutPass(users, userId)
    /\ last' = [ op |-> "useBailoutPass", userId |-> userId,
                 before |-> getBailoutPasses(users, userId) ]
    /\ UNCHANGED <<progress, now, tz, sqlite_sequence, lastInsertRowid, homeRequests,
                   activityRows>>

LedgerValidateStreak(userId, consecutiveMisses) ==
    /\ users' = validateStreak(users, userId, consecutiveMisses, now)
    /\ last' = [ op |-> "validateStreak", userId |-> userId,
                 consecutiveMisses |-> consecutiveMisses,
                 status |-> validateStreakResult(consecutiveMisses).status,
                 reason |-> validateStreakResult(consecutiveMisses).reason ]
    /\ UNCHANGED <<progress, now, tz, sqlite_sequence, lastInsertRowid, homeRequests,
                   activityRows>>

\* a missed day 0 is recorded for the first user
LedgerSaveDailyProgress ==
    /\ 1 \in DOMAIN users
    /\ sqlite_sequence.daily_progress < LedgerMaxProgressRowid
    /\ LET S == RunSaveDailyProgress([ progress |-> progress,
                                       seq |-> sqlite_sequence.daily_progress,
                                       rowid |-> lastInsertRowid ],
                                     1, DateAt(0), getRequiredDistance(DateAt(0))[1],
                                     0, "missed")
       IN  /\ progress' = S.progress
           /\ sqlite_sequence' = [sqlite_sequence EXCEPT !.daily_progress = S.seq]
           /\ lastInsertRowid' = S.rowid
    /\ last' = [op |-> "saveDailyProgress"]
    /\ UNCHANGED <<users, now, tz, homeRequests, activityRows>>

\* the activities handed to saveActivity
LedgerActivityData ==
    { [id |-> i, distance |-> m, moving_time |-> m] :
        i \in 1 .. LedgerActivities, m \in 1 .. LedgerMaxMeters }

\* saveActivity(userId, activityData); the ledger calls it for the first user,
\* once that user has a row
LedgerSaveActivity(userId, activityData) ==
    /\ userId \in DOMAIN users
    /\ sqlite_sequence.activities < LedgerMaxActivityRowid
    /\ activityRows' = saveActivity(activityRows, sqlite_sequence.activities, userId,
                                    activityData)
    /\ sqlite_sequence' = [sqlite_sequence EXCEPT !.activities = AutoIncrement(@)]
    /\ lastInsertRowid' = LastInsertRowid(lastInsertRowid, sqlite_sequence.activities,
                                          saveActivityInserts(activityRows, activityData.id))
    /\ last' = [ op |-> "saveActivity", userId |-> userId,
                 strava_activity_id |-> activityData.id,
                 created |-> saveActivityInserts(activityRows, activityData.id) ]
    /\ UNCHANGED <<users, progress, now, tz, homeRequests>>

\* the server starts again: a new connection has inserted nothing
LedgerReconnect ==
    /\ lastInsertRowid # 0
    /\ lastInsertRowid' = 0
    /\ last' = [op |-> "connect"]
    /\ UNCHANGED <<users, progress, now, tz, sqlite_sequence, homeRequests, activityRows>>

LedgerNext ==
    \/ LedgerTick
    \/ \E s \in 1 .. LedgerUsers, k \in Tokens : LedgerSaveUser(s, k)
    \/ \E u \in 1 .. LedgerMaxRowid : LedgerUseBailoutPass(u)
    \/ \E u \in 1 .. LedgerMaxRowid, m \in 0 .. MaxMisses : LedgerValidateStreak(u, m)
    \/ LedgerSaveDailyProgress
    \/ \E a \in LedgerActivityData : LedgerSaveActivity(1, a)
    \/ LedgerReconnect

SpecLedger == LedgerInit /\ [][LedgerNext]_vars

----------------------------------------------------------------------------
(* The progress-store calls: saveDailyProgress and getDailyProgress called *)
(* one at a time for two existing users, with any date and field values    *)

StoreInstants == 0 .. StoreMaxTick
StoreDates == { DateAt(t) : t \in StoreInstants } \cup {InvalidDate}
StoreRequired == { RequiredDistanceOf(1, 31), RequiredDistanceOf(2, 1) }
\* the completed distance and the status written together
StoreOutcomes == { <<0, "bailout">>, <<LongRun, "completed">> }

\* athletes 1 .. n saved once each, on an empty table
RECURSIVE SaveUsers(_, _)
SaveUsers(U, n) == IF n = 0 THEN U ELSE saveUser(SaveUsers(U, n - 1), n - 1, n, 1)

\* sqlite_sequence and last_insert_rowid() after the users of U and then the
\* records of P were inserted, each by one statement
SequenceOf(U, P) ==
    [users |-> Cardinality(DOMAIN U), daily_progress |-> Cardinality(P), activities |-> 0]
RowidOf(U, P) == IF P # {} THEN Cardinality(P) ELSE Cardinality(DOMAIN U)

StoreInit ==
    /\ users = SaveUsers(<<>>, StoreUsers)
    /\ progress = {}
    /\ now = 0
    /\ tz = 0
    /\ last = [op |-> "init"]
    /\ sqlite_sequence = SequenceOf(users, progress)
    /\ lastInsertRowid = RowidOf(users, progress)
    /\ homeRequests = {}
    /\ activityRows = <<>>

StoreSave(userId, date, requiredDistance, completedDistance, status) ==
    /\ userId \in DOMAIN users
    /\ sqlite_sequence.daily_progress < StoreMaxRowid
    /\ LET S0 == [ progress |-> progress,
                   seq |-> sqlite_sequence.daily_progress,
                   rowid |-> lastInsertRowid ]
           S == IF saveDailyProgressThrows(date) THEN S0
                ELSE RunSaveDailyProgress(S0, userId, date, requiredDistance,
                                          completedDistance, status)
       IN  /\ progress' = S.progress
           /\ sqlite_sequence' = [sqlite_sequence EXCEPT !.daily_progress = S.seq]
           /\ lastInsertRowid' = S.rowid
    /\ last' = [ op |-> "saveDailyProgress", userId |-> userId, date |-> date,
                 requiredDistance |-> requiredDistance,
                 completedDistance |-> completedDistance,
                 status |-> status, threw |-> saveDailyProgressThrows(date) ]
    /\ UNCHANGED <<users, now, tz, homeRequests, activityRows>>

StoreGet(userId, startDate, endDate) ==
    /\ userId \in DOMAIN users
    /\ last' = [ op |-> "getDailyProgress", userId |-> userId,
                 startDate |-> startDate, endDate |-> endDate,
                 ret |-> getDailyProgress(progress, userId, startDate, endDate) ]
    /\ UNCHANGED <<users, progress, now, tz, sqlite_sequence, lastInsertRowid,
                   homeRequests, activityRows>>

StoreNext ==
    \/ \E u \in 1 .. StoreUsers, d \in StoreDates, r \in StoreRequired,
          o \in StoreOutcomes : StoreSave(u, d, r, o[1], o[2])
    \/ \E u \in 1 .. StoreUsers, a \in StoreInstants, b \in StoreInstants :
          a <= b /\ StoreGet(u, DateAt(a), DateAt(b))

SpecStore == StoreInit /\ [][StoreNext]_vars

----------------------------------------------------------------------------
(* The consecutive-miss scan: getConsecutiveMisses called on a stored      *)
(* history.  A history lists the statuses of consecutive days, the newest  *)
(* first; the histories drawn are all those of up to MaxShort days and     *)
(* those of up to MaxHist days made of 'missed' and 'pending' days,        *)
(* followed or not by a completed or excused day and one older missed day. *)

SeqsUpTo(S, n) == UNION { [1 .. k -> S] : k \in 0 .. n }

ShortHistories == SeqsUpTo(Statuses, MaxShort)

LongHistories ==
    { h \in { pre \o end : pre \in SeqsUpTo({"missed", "pending"}, MaxHist),
                           end \in { <<>>, <<"completed">>, <<"bailout">>,
                                     <<"completed", "missed">>,
                                     <<"bailout", "missed">> } } :
        Len(h) <= MaxHist }

ScanHistories == ShortHistories \cup LongHistories

\* the rows of a history h of userId: its newest day is day Len(h), its oldest
\* day 1; every row is written by saveDailyProgress
RECURSIVE HistoryRows(_, _, _)
HistoryRows(P, userId, h) ==
    IF h = <<>> THEN P
    ELSE HistoryRows(
           saveDailyProgress(P, userId, DateAt(DateOfDay(Len(h))),
                             RequiredDistanceOf(1, 31), 0, h[1]),
           userId, Tail(h))

ScanInit ==
    /\ users = SaveUsers(<<>>, 2)
    /\ \E h \in ScanHistories :
         progress = HistoryRows(HistoryRows({}, 2, <<"missed">>), 1, h)
    /\ now = 0
    /\ tz = 0
    /\ last = [op |-> "init"]
    /\ sqlite_sequence = SequenceOf(users, progress)
    /\ lastInsertRowid = RowidOf(users, progress)
    /\ homeRequests = {}
    /\ activityRows = <<>>

\* the instants a scan is asked for: the newest stored day, at midnight and
\* later that day, and the day before it
ScanInstants ==
    LET newest == IF progress = {} THEN 0
                  ELSE CHOOSE d \in { r.date : r \in progress } :
                         \A r \in progress : r.date <= d
    IN  { DateOfDay(newest), DateOfDay(newest) + 1, DateOfDay(newest - 1) }

Scan(userId, endDate) ==
    /\ last' = [ op |-> "getConsecutiveMisses", userId |-> userId,
                 endDate |-> endDate,
                 ret |-> getConsecutiveMisses(progress, userId, endDate) ]
    /\ UNCHANGED <<users, progress, now, tz, sqlite_sequence, lastInsertRowid,
                   homeRequests, activityRows>>

ScanNext == \E u \in DOMAIN users, t \in ScanInstants : Scan(u, DateAt(t))

SpecScan == ScanInit /\ [][ScanNext]_vars

----------------------------------------------------------------------------
(* The streak statistics: calculateStreaks called on what getDailyProgress *)
(* returns for a stored history.  A history gives each of the days         *)
(* 1 .. StreakDays a status, or no record at all ("none").                 *)

StreakHistories == [1 .. StreakDays -> Statuses \cup {"none"}]

\* the rows of history h of userId, from day d on; every row is written by
\* saveDailyProgress
RECURSIVE StreakRows(_, _, _, _)
StreakRows(P, userId, h, d) ==
    IF d > StreakDays THEN P
    ELSE StreakRows(
           IF h[d] = "none" THEN P
           ELSE saveDailyProgress(P, userId, DateAt(DateOfDay(d)),
                                  RequiredDistanceOf(1, 31),
                                  IF h[d] = "completed" THEN LongRun ELSE 0, h[d]),
           userId, h, d + 1)

StreaksInit ==
    /\ users = SaveUsers(<<>>, 1)
    /\ \E h \in StreakHistories : progress = StreakRows({}, 1, h, 1)
    /\ now = DateOfDay(StreakDays)
    /\ tz = 0
    /\ last = [op |-> "init"]
    /\ sqlite_sequence = SequenceOf(users, progress)
    /\ lastInsertRowid = RowidOf(users, progress)
    /\ homeRequests = {}
    /\ activityRows = <<>>

\* const progressData = getDailyProgress(user.id, thirtyDaysAgo, today);
\* const streaks = calculateStreaks(progressData);
\* const consecutiveMisses = getConsecutiveMisses(user.id, today);
CalcStreaks(userId, startDate, endDate) ==
    /\ userId \in DOMAIN users
    /\ LET progressData == getDailyProgress(progress, userId, startDate, endDate) IN
       last' = [ op |-> "calculateStreaks", progressData |-> progressData,
                 ret |-> calculateStreaks(progressData),
                 consecutiveMisses |-> getConsecutiveMisses(progress, userId, endDate) ]
    /\ UNCHANGED <<users, progress, now, tz, sqlite_sequence, lastInsertRowid,
                   homeRequests, activityRows>>

StreaksNext ==
    \E a \in {1, 2}, b \in {StreakDays - 1, StreakDays} :
        CalcStreaks(1, DateAt(DateOfDay(a)), DateAt(DateOfDay(b)))

SpecStreaks == StreaksInit /\ [][StreaksNext]_vars

----------------------------------------------------------------------------
(* The winner: determineWinner called, as GET /leaderboard calls it, on    *)
(* stored users and histories.  Each of up to WinnerUsers users is active  *)
(* or was eliminated on day 2 or 3 and has one of the histories below      *)
(* (newest day first), which differ in completed days and longest streak.  *)

WinnerHistories ==
    { <<"pending", "missed", "missed">>,          \* 0 completed days, longest streak 0
      <<"pending", "missed", "completed">>,       \* 1, 1
      <<"missed", "bailout", "completed">>,       \* 1, 2
      <<"completed", "missed", "completed">>,     \* 2, 1
      <<"missed", "completed", "completed">>,     \* 2, 2
      <<"bailout", "bailout", "bailout">>,        \* 0, 3
      <<"bailout", "completed", "bailout">> }     \* 1, 3

WinnerEliminations == {NULL} \cup { Some(d) : d \in 2 .. 3 }

\* eliminateUser for the users from id i on that e gives an elimination day
RECURSIVE EliminateUsers(_, _, _)
EliminateUsers(U, e, i) ==
    IF i > Cardinality(DOMAIN U) THEN U
    ELSE EliminateUsers(
           IF e[i] = NULL THEN U
           ELSE eliminateUser(U, i, e[i][1], EliminationReasonText),
           e, i + 1)

\* the rows of the histories h of the users from id i on
RECURSIVE WinnerRows(_, _, _)
WinnerRows(P, h, i) ==
    IF i > Len(h) THEN P
    ELSE WinnerRows(HistoryRows(P, i, h[i]), h, i + 1)

WinnerInit ==
    /\ \E n \in 0 .. WinnerUsers :
         \E e \in [1 .. n -> WinnerEliminations], h \in [1 .. n -> WinnerHistories] :
            /\ users = EliminateUsers(SaveUsers(<<>>, n), e, 1)
            /\ progress = WinnerRows({}, h, 1)
    /\ now = DateOfDay(3)
    /\ tz = 0
    /\ last = [op |-> "init"]
    /\ sqlite_sequence = SequenceOf(users, progress)
    /\ lastInsertRowid = RowidOf(users, progress)
    /\ homeRequests = {}
    /\ activityRows = <<>>

\* GET /leaderboard up to its call of determineWinner
DetermineWinner ==
    /\ LET allUsers == getAllUsers(users)
           today == DateAt(now)
           thirtyDaysAgo == DateAt(MinusDays(now, HistoryWindowDays))
           progressDataMap ==
               [ id \in DOMAIN users |->
                   getDailyProgress(progress, id, thirtyDaysAgo, today) ]
       IN  last' = [ op |-> "determineWinner",
                     winner |-> determineWinner(allUsers, progressDataMap) ]
    /\ UNCHANGED <<users, progress, now, tz, sqlite_sequence, lastInsertRowid,
                   homeRequests, activityRows>>

WinnerNext == DetermineWinner

SpecWinner == WinnerInit /\ [][WinnerNext]_vars

----------------------------------------------------------------------------
(* The distance rule and the goal check: getRequiredDistance called at     *)
(* any instant of DistanceYears years, in either zone, and checkDailyGoal  *)
(* called on up to MaxRuns runs and a required distance                    *)

DistanceInstants == 0 .. (DistanceYears * DaysPerYear * TicksPerDay - 1)

RunDistances == {0, 31, 100, RequiredDistanceOf(1, 31), LongRun}
RunLists == UNION { [1 .. k -> [distance : RunDistances]] : k \in 0 .. MaxRuns }
GoalRequired == { RequiredDistanceOf(1, 31), RequiredDistanceOf(2, 1),
                  RequiredDistanceOf(12, 31) }

GetRequiredDistance(date) ==
    /\ last' = [ op |-> "getRequiredDistance", date |-> date,
                 ret |-> getRequiredDistance(date) ]
    /\ UNCHANGED <<users, progress, now, tz, sqlite_sequence, lastInsertRowid,
                   homeRequests, activityRows>>

CheckDailyGoal(runs, requiredDistance) ==
    /\ last' = [ op |-> "checkDailyGoal", runs |-> runs,
                 requiredDistance |-> requiredDistance,
                 ret |-> checkDailyGoal(runs, requiredDistance) ]
    /\ UNCHANGED <<users, progress, now, tz, sqlite_sequence, lastInsertRowid,
                   homeRequests, activityRows>>

\* the server runs at any instant of the years
DistanceInit ==
    /\ users = <<>>
    /\ progress = {}
    /\ now \in DistanceInstants
    /\ tz \in Zones
    /\ last = [op |-> "init"]
    /\ sqlite_sequence = SequenceOf(users, progress)
    /\ lastInsertRowid = RowidOf(users, progress)
    /\ homeRequests = {}
    /\ activityRows = <<>>

\* getRequiredDistance(new Date())
DistanceNext == GetRequiredDistance(DateAt(now))

SpecDistance == DistanceInit /\ [][DistanceNext]_vars

GoalNext == \E runs \in RunLists, r \in GoalRequired : CheckDailyGoal(runs, r)

SpecGoal == Init /\ [][GoalNext]_vars

----------------------------------------------------------------------------
(* Claims *)

\* C1: a validateStreak call with consecutiveMisses >= 3 returns status
\* 'eliminated' with reason 'Three consecutive missed days', and afterwards the
\* user's row holds the day of the call as elimination_date and that reason
C1_EliminatedAtThree ==
    (last.op = "validateStreak" /\ last.consecutiveMisses >= 3)
    => /\ last.status = "eliminated"
       /\ last.reason = <<"Three consecutive missed days">>
       /\ last.userId \in DOMAIN users
            => /\ users[last.userId].elimination_date = <<now \div TicksPerDay>>
               /\ users[last.userId].elimination_reason
                    = <<"Three consecutive missed days">>

\* a user is eliminated by a call with exactly 3 misses, made on the second day
C1_Witness ==
    /\ last.op = "validateStreak"
    /\ last.consecutiveMisses = 3
    /\ last.userId \in DOMAIN users
    /\ now \div TicksPerDay = 1
    /\ users[last.userId].elimination_date = <<1>>

\* C2: below 3 consecutive misses validateStreak returns 'at_risk' exactly at 2,
\* 'active' with no reason at 0 and 1, and never 'eliminated'
C2_StatusBelowThree ==
    (last.op = "validateStreak" /\ last.consecutiveMisses < 3)
    => /\ (last.status = "at_risk") <=> (last.consecutiveMisses = 2)
       /\ last.consecutiveMisses \in {0, 1}
            => (last.status = "active" /\ last.reason = <<>>)
       /\ last.status # "eliminated"

\* a call with 2 misses has answered 'at_risk'
C2_Witness ==
    /\ last.op = "validateStreak"
    /\ last.consecutiveMisses = 2
    /\ last.status = "at_risk"

\* C3: a validateStreak call with consecutiveMisses < 3 writes nothing: every
\* user's elimination_date, elimination_reason and bailout_passes and every
\* daily progress record are after the call what they were before it
C3_NoWriteBelowThree ==
    [][ (last'.op = "validateStreak" /\ last'.consecutiveMisses < 3)
        => /\ DOMAIN users' = DOMAIN users
           /\ \A i \in DOMAIN users :
                /\ users'[i].elimination_date = users[i].elimination_date
                /\ users'[i].elimination_reason = users[i].elimination_reason
                /\ users'[i].bailout_passes = users[i].bailout_passes
           /\ progress' = progress ]_vars

\* a call with 2 misses for a user who has a progress record and is not eliminated
C3_Witness ==
    /\ last.op = "validateStreak"
    /\ last.consecutiveMisses = 2
    /\ last.userId \in DOMAIN users
    /\ users[last.userId].elimination_date = <<>>
    /\ \E r \in progress : r.user_id = last.userId

\* C4: useBailoutPass(userId) lowers that user's bailout_passes by exactly 1 when
\* it is > 0 and leaves it at 0 when it is 0; no other user's balance changes
C4_UseBailoutPass ==
    [][ (last'.op = "useBailoutPass")
        => /\ DOMAIN users' = DOMAIN users
           /\ \A i \in DOMAIN users :
                users'[i].bailout_passes =
                    IF i = last'.userId /\ users[i].bailout_passes > 0
                    THEN users[i].bailout_passes - 1
                    ELSE users[i].bailout_passes
           /\ \A i \in DOMAIN users : users'[i].bailout_passes >= 0 ]_vars

\* a call on an empty balance has left it at 0, while another user, who went
\* from 2 passes to 1 earlier, still has 1
C4_Witness ==
    /\ last.op = "useBailoutPass"
    /\ last.userId \in DOMAIN users
    /\ last.before = 0
    /\ users[last.userId].bailout_passes = 0
    /\ \E i \in DOMAIN users : i # last.userId /\ users[i].bailout_passes = 1

\* C5: every user's bailout_passes lies in 0..4 in every state; it is 4 when the
\* user is created and no request, re-authentication included, ever raises it
C5_BailoutPassesRange ==
    /\ [](\A i \in DOMAIN users : users[i].bailout_passes \in 0 .. 4)
    /\ [][ /\ \A i \in DOMAIN users' \ DOMAIN users : users'[i].bailout_passes = 4
           /\ \A i \in DOMAIN users :
                /\ i \in DOMAIN users'
                /\ users'[i].bailout_passes <= users[i].bailout_passes ]_vars

\* a user who has spent every pass authenticates again and still has none
C5_Witness ==
    /\ last.op = "saveUser"
    /\ ~last.created
    /\ users[UserIdOfStravaId(users, last.strava_id)].bailout_passes = 0

\* C6: for every user elimination_date and elimination_reason are both set or
\* both absent
C6_EliminationFieldsTogether ==
    \A i \in DOMAIN users :
        (users[i].elimination_date = <<>>) <=> (users[i].elimination_reason = <<>>)

\* a request has eliminated a user: both fields are set
C6_Witness ==
    \E i \in DOMAIN users :
        /\ users[i].elimination_date # <<>>
        /\ users[i].elimination_reason # <<>>
        /\ last.op \in {"progress", "home", "home-answer", "leaderboard", "dashboard"}

\* C7: the daily_progress table holds at most one row per (user_id, date)
C7_OneRowPerUserDate ==
    \A r1 \in progress, r2 \in progress :
        (r1.user_id = r2.user_id /\ r1.date = r2.date) => r1 = r2

\* a bailout request has upserted a key that had a row already: the row keeps
\* the required distance of its first insert, which is not the one passed now
C7_Witness ==
    /\ last.op = "use-bailout"
    /\ last.accepted
    /\ ~last.threw
    /\ \E r \in progress :
         /\ r.user_id = last.userId
         /\ r.date = last.date.time \div TicksPerDay
         /\ r.status = "bailout"
         /\ <<r.required_distance>> # getRequiredDistance(last.date)

\* the records getDailyProgress returns for the date just saved, over the window
\* from instant a to instant b
SavedRecords(P, a, b) ==
    LET ret == getDailyProgress(P, last.userId, DateAt(a), DateAt(b)) IN
    { i \in DOMAIN ret : ret[i].date = last.date.time \div TicksPerDay }

\* C8 as stated: after saveDailyProgress, getDailyProgress over every window that
\* contains the date returns a record for it whose required distance, completed
\* distance and status are the values just written
C8_RoundTripIdentical ==
    (last.op = "saveDailyProgress" /\ ~last.threw)
    => \A a \in StoreInstants, b \in StoreInstants :
         (a <= last.date.time /\ last.date.time <= b)
         => LET ret == getDailyProgress(progress, last.userId, DateAt(a), DateAt(b)) IN
            \E i \in SavedRecords(progress, a, b) :
                /\ ret[i].required_distance = last.requiredDistance
                /\ ret[i].completed_distance = last.completedDistance
                /\ ret[i].status = last.status

\* C8 amended: after saveDailyProgress of a valid date, getDailyProgress over
\* every window that contains the date returns exactly one record for it; its
\* completed distance and status are the values just written, and its required
\* distance is the value just written when the key had no record before and the
\* required distance of the record it had otherwise
C8_RoundTripAmended ==
    [][ (last'.op = "saveDailyProgress" /\ ~last'.threw)
        => \A a \in StoreInstants, b \in StoreInstants :
             (a <= last'.date.time /\ last'.date.time <= b)
             => LET userId == last'.userId
                    day == last'.date.time \div TicksPerDay
                    before == { r \in progress : r.user_id = userId /\ r.date = day }
                    ret == getDailyProgress(progress', userId, DateAt(a), DateAt(b))
                    hits == { i \in DOMAIN ret : ret[i].date = day }
                IN  /\ Cardinality(hits) = 1
                    /\ \A i \in hits :
                         /\ ret[i].user_id = userId
                         /\ ret[i].completed_distance = last'.completedDistance
                         /\ ret[i].status = last'.status
                         /\ IF before = {}
                            THEN ret[i].required_distance = last'.requiredDistance
                            ELSE \E r \in before :
                                   ret[i].required_distance = r.required_distance ]_vars

\* a save has overwritten a record: the key holds the new status and completed
\* distance and a required distance that is not the one passed
C8_Witness ==
    /\ last.op = "saveDailyProgress"
    /\ ~last.threw
    /\ \E r \in progress :
         /\ r.user_id = last.userId
         /\ r.date = last.date.time \div TicksPerDay
         /\ r.status = last.status
         /\ r.completed_distance = last.completedDistance
         /\ r.required_distance # last.requiredDistance

\* the records the last scan was asked about: those of the user up to the day asked
ScannedRows ==
    { r \in progress : /\ r.user_id = last.userId
                       /\ r.date <= last.endDate.time \div TicksPerDay }

ScanEnders == { r \in ScannedRows : r.status \in {"completed", "bailout"} }

\* C9: getConsecutiveMisses counts the 'missed' records, among those of the user
\* dated up to the day asked, that are newer than every 'completed' or 'bailout'
\* record (and among the 10 newest); no missed record older than a completed or
\* excused one is counted
C9_StopsAtCompletedOrBailout ==
    (last.op = "getConsecutiveMisses")
    => last.ret = Cardinality(
         { r \in ScannedRows :
             /\ r.status = "missed"
             /\ \A e \in ScanEnders : e.date < r.date
             /\ Cardinality({ q \in ScannedRows : q.date > r.date }) < 10 })

\* the history (newest first) missed, missed, completed, missed has yielded 2
C9_Witness ==
    /\ last.op = "getConsecutiveMisses"
    /\ last.ret = 2
    /\ { <<r.date, r.status>> : r \in ScannedRows }
         = { <<4, "missed">>, <<3, "missed">>, <<2, "completed">>, <<1, "missed">> }

\* the history without its records that are neither missed, completed nor excused
WithoutOtherStatuses(P) ==
    { r \in P : r.status \in {"missed", "completed", "bailout"} }

\* the scan ends among the 10 newest records: the newest completed or excused
\* record is one of them or, when there is none, the history has no more than 10
ScanWithinWindow ==
    IF ScanEnders = {}
    THEN Cardinality(ScannedRows) <= 10
    ELSE \E e \in ScanEnders :
           /\ \A f \in ScanEnders : f.date <= e.date
           /\ Cardinality({ q \in ScannedRows : q.date >= e.date }) <= 10

\* C10: a record that is neither 'missed', 'completed' nor 'bailout' neither
\* counts nor ends the scan: as long as the scan ends among the 10 newest
\* records, the result is the result for the history without such records
C10_OtherStatusesSkipped ==
    (last.op = "getConsecutiveMisses" /\ ScanWithinWindow)
    => last.ret = getConsecutiveMisses(WithoutOtherStatuses(progress),
                                       last.userId, last.endDate)

\* the history (newest first) missed, pending, missed, completed has yielded 2
C10_Witness ==
    /\ last.op = "getConsecutiveMisses"
    /\ last.ret = 2
    /\ { <<r.date, r.status>> : r \in ScannedRows }
         = { <<4, "missed">>, <<3, "pending">>, <<2, "missed">>, <<1, "completed">> }

\* the records handed to the last calculateStreaks call
StreakInput == { last.progressData[i] : i \in DOMAIN last.progressData }

\* the records of the input dated from day lo to day hi
StreakBlock(lo, hi) == { r \in StreakInput : lo <= r.date /\ r.date <= hi }

GoodDays(R) == { r \in R : r.status \in {"completed", "bailout"} }

\* C11: longestStreak is the greatest number of 'completed' or 'bailout' records
\* in a stretch of the date-ordered records that holds no 'missed' record; the
\* days of a stretch need not be adjacent in the calendar, and a record of any
\* other status neither adds to the stretch nor ends it
C11_LongestStreak ==
    (last.op = "calculateStreaks")
    => LET runs == { Cardinality(GoodDays(StreakBlock(lo, hi))) :
                       <<lo, hi>> \in { w \in (0 .. StreakDays + 1) \X (0 .. StreakDays + 1) :
                           \A r \in StreakBlock(w[1], w[2]) : r.status # "missed" } }
       IN  /\ last.ret.longestStreak \in runs
           /\ \A n \in runs : n <= last.ret.longestStreak

\* a streak of 2 that spans a pending day (a bailout day, then a completed
\* day), in a history whose other good day is cut off by a missed day
C11_Witness ==
    /\ last.op = "calculateStreaks"
    /\ last.ret.longestStreak = 2
    /\ { <<r.date, r.status>> : r \in StreakInput }
         = { <<1, "completed">>, <<2, "missed">>, <<3, "bailout">>,
             <<4, "pending">>, <<5, "completed">> }

\* C12: currentStreak is the number of 'completed' or 'bailout' records newer
\* than the newest 'missed' record (all of them when there is none); it is 0
\* when the newest record that is not 'pending' is 'missed'
C12_CurrentStreak ==
    (last.op = "calculateStreaks")
    => /\ last.ret.currentStreak =
            Cardinality({ r \in GoodDays(StreakInput) :
                            \A m \in StreakInput : m.status = "missed" => m.date < r.date })
       /\ (\E m \in StreakInput :
             /\ m.status = "missed"
             /\ \A r \in StreakInput : r.date > m.date => r.status = "pending")
          => last.ret.currentStreak = 0

\* a current streak of 2 behind a pending day, stopped by a missed day that has
\* a completed day before it
C12_Witness ==
    /\ last.op = "calculateStreaks"
    /\ last.ret.currentStreak = 2
    /\ { <<r.date, r.status>> : r \in StreakInput }
         = { <<1, "completed">>, <<2, "missed">>, <<3, "bailout">>,
             <<4, "completed">>, <<5, "pending">> }

\* the users without an elimination date, and the pool determineWinner picks from
ActiveIds == { i \in DOMAIN users : users[i].elimination_date = <<>> }
WinnerPool == IF ActiveIds # {} THEN ActiveIds ELSE DOMAIN users

\* the number of stored 'completed' days of user i
CompletedDays(i) ==
    Cardinality({ r \in progress : r.user_id = i /\ r.status = "completed" })

\* C13: determineWinner returns none exactly when there is no user, and when some
\* user has no elimination date the winner is a user without an elimination date
C13_ActiveOutranksEliminated ==
    (last.op = "determineWinner")
    => /\ (last.winner = <<>>) <=> (DOMAIN users = {})
       /\ last.winner # <<>> => last.winner[1].id \in DOMAIN users
       /\ ActiveIds # {}
            => /\ last.winner # <<>>
               /\ last.winner[1].elimination_date = <<>>
               /\ last.winner[1].id \in ActiveIds

\* the only active user wins against two eliminated users who both completed
\* more days
C13_Witness ==
    /\ last.op = "determineWinner"
    /\ Cardinality(ActiveIds) = 1
    /\ Cardinality(DOMAIN users) = 3
    /\ last.winner # <<>>
    /\ last.winner[1].id \in ActiveIds
    /\ \A i \in DOMAIN users \ ActiveIds :
         CompletedDays(i) > CompletedDays(last.winner[1].id)

\* C14: when one candidate of the pool has strictly more completed days than
\* every other candidate, determineWinner returns that candidate, whatever the
\* streaks are
C14_MostCompletedDaysWins ==
    (last.op = "determineWinner")
    => \A c \in WinnerPool :
         (\A d \in WinnerPool \ {c} : CompletedDays(c) > CompletedDays(d))
         => (last.winner # <<>> /\ last.winner[1].id = c)

\* the longest streak of user i over all stored days
LongestStreakOf(i) ==
    calculateStreaks(getDailyProgress(progress, i, DateAt(MinusDays(now, HistoryWindowDays)),
                                      DateAt(now))).longestStreak

\* of three active users the one with 2 completed days wins, although another
\* candidate has the longer streak
C14_Witness ==
    /\ last.op = "determineWinner"
    /\ Cardinality(ActiveIds) = 3
    /\ last.winner # <<>>
    /\ CompletedDays(last.winner[1].id) = 2
    /\ \A d \in ActiveIds \ {last.winner[1].id} : CompletedDays(d) < 2
    /\ \E d \in ActiveIds : LongestStreakOf(d) > LongestStreakOf(last.winner[1].id)

\* candidate a stands before candidate b in the pool: the active users stand in
\* the order of the user list, the eliminated ones latest elimination first
PoolBefore(a, b) ==
    IF ActiveIds # {} THEN a < b
    ELSE \/ users[a].elimination_date[1] > users[b].elimination_date[1]
         \/ users[a].elimination_date = users[b].elimination_date /\ a < b

\* candidate a stands before candidate b after the sort by completed days
DaysSortBefore(a, b) ==
    \/ CompletedDays(a) > CompletedDays(b)
    \/ CompletedDays(a) = CompletedDays(b) /\ PoolBefore(a, b)

\* the two candidates with the most completed days are tied on that count
TopTwoTied ==
    /\ Cardinality(WinnerPool) >= 2
    /\ \E a \in WinnerPool, b \in WinnerPool :
         /\ a # b
         /\ CompletedDays(a) = CompletedDays(b)
         /\ \A d \in WinnerPool : CompletedDays(d) <= CompletedDays(a)

\* C15: when the two candidates with the most completed days are tied on that
\* count, the winner is the candidate with the longest streak and, among the
\* candidates of that longest streak, the one the sort by completed days left first
C15_LongestStreakBreaksTie ==
    (last.op = "determineWinner" /\ TopTwoTied)
    => /\ last.winner # <<>>
       /\ last.winner[1].id \in WinnerPool
       /\ \A c \in WinnerPool \ {last.winner[1].id} :
            \/ LongestStreakOf(last.winner[1].id) > LongestStreakOf(c)
            \/ /\ LongestStreakOf(last.winner[1].id) = LongestStreakOf(c)
               /\ DaysSortBefore(last.winner[1].id, c)

\* three active users: two tied at 2 completed days with longest streaks 1 and
\* 2, the third with 1 completed day and a longest streak of 2 as well; the
\* winner is the candidate with 2 days and streak 2, who is not the first user
C15_Witness ==
    /\ last.op = "determineWinner"
    /\ Cardinality(ActiveIds) = 3
    /\ TopTwoTied
    /\ last.winner # <<>>
    /\ last.winner[1].id = 3
    /\ CompletedDays(3) = 2 /\ LongestStreakOf(3) = 2
    /\ CompletedDays(2) = 2 /\ LongestStreakOf(2) = 1
    /\ CompletedDays(1) = 1 /\ LongestStreakOf(1) = 2

\* C16: when every user has an elimination date, determineWinner returns the
\* user with the latest elimination date
C16_LastToQuitWins ==
    (last.op = "determineWinner" /\ ActiveIds = {} /\ DOMAIN users # {})
    => /\ last.winner # <<>>
       /\ \A i \in DOMAIN users :
            users[i].elimination_date[1] <= last.winner[1].elimination_date[1]

\* C17: a rejected bailout request, whether for a missing date or for an empty
\* balance, leaves every user's row and every daily progress record as they were
C17_RejectedBailoutChangesNothing ==
    [][ (last'.op = "use-bailout" /\ ~last'.accepted)
        => /\ users' = users
           /\ progress' = progress ]_vars

\* a request that names a date is rejected for a user who has spent all four
\* passes and has an excused day on record
C17_Witness ==
    /\ last.op = "use-bailout"
    /\ ~last.accepted
    /\ last.hasDate
    /\ users[last.userId].bailout_passes = 0
    /\ \E r \in progress : r.user_id = last.userId /\ r.status = "bailout"

\* C18: when the upsert of an accepted bailout request throws, the decrement
\* made before it stays: the balance is lower by 1, no daily progress record
\* has changed and no 'bailout' record has been added
C18_SpentPassWithoutBailoutDay ==
    [][ (last'.op = "use-bailout" /\ last'.accepted /\ last'.threw)
        => /\ users'[last'.userId].bailout_passes
                = users[last'.userId].bailout_passes - 1
           /\ progress' = progress
           /\ { r \in progress' : r.status = "bailout" }
                = { r \in progress : r.status = "bailout" } ]_vars

\* the first pass of a user is spent on a date that cannot be stored: 3 passes
\* are left and the user has no excused day
C18_Witness ==
    /\ last.op = "use-bailout"
    /\ last.accepted
    /\ last.threw
    /\ users[last.userId].bailout_passes = 3
    /\ \A r \in progress : r.user_id = last.userId => r.status # "bailout"

\* the last step is that of a request whose activities request failed or
\* answered no list: GET /progress or GET /dashboard as a whole, or GET / from
\* the failed answer on
FeedCallFailed ==
    \/ last.op = "progress" /\ ~last.fetched
    \/ last.op = "dashboard" /\ ~last.redirected /\ ~last.fetched
    \/ last.op = "home-answer" /\ last.fetch = "error"

\* C19: a request whose activity-feed call fails or answers something that is
\* no list writes nothing: the daily progress records and every user's
\* elimination and bailout fields are after the request what they were before;
\* for GET / this covers the part of the request before the failed answer too
C19_FailedFeedWritesNothing ==
    /\ [][ FeedCallFailed'
            => /\ progress' = progress
               /\ DOMAIN users' = DOMAIN users
               /\ \A i \in DOMAIN users :
                    /\ users'[i].elimination_date = users[i].elimination_date
                    /\ users'[i].elimination_reason = users[i].elimination_reason
                    /\ users'[i].bailout_passes = users[i].bailout_passes ]_vars
    /\ []((last.op = "home-answer" /\ last.fetch = "error") => ~last.changed)

\* C20: after a progress evaluation made on day T no record of that user dated
\* before T is 'pending'
C20_NoPendingPastDay ==
    (last.op = "progress" /\ last.fetched)
    => \A r \in progress :
         (r.user_id = last.userId /\ r.date < now \div TicksPerDay)
         => r.status # "pending"

\* the calendar, written out: the month and the day of the month of the d-th
\* day of a year
CalendarMonth(d) ==
    CHOOSE m \in 1 .. 12 :
        LET before == { k \in 1 .. 12 : k < m } IN
        /\ d > Cardinality({ <<k, j>> \in before \X (1 .. 31) : j <= MonthLengths[k] })
        /\ d <= Cardinality({ <<k, j>> \in (before \cup {m}) \X (1 .. 31) :
                                j <= MonthLengths[k] })

CalendarDay(d) ==
    d - Cardinality({ <<k, j>> \in { k \in 1 .. 12 : k < CalendarMonth(d) } \X (1 .. 31) :
                        j <= MonthLengths[k] })

\* the local day of the year of the date of the last getRequiredDistance call
LastYearDay ==
    (((last.date.time + tz) \div TicksPerDay + EpochDayOfYear - 1) % 365) + 1

\* C21: for a date of month m and day d getRequiredDistance returns 100 * m + d
\* hundredths, and the same for the same day of the following year
C21_RequiredDistance ==
    (last.op = "getRequiredDistance")
    => /\ last.ret = <<100 * CalendarMonth(LastYearDay) + CalendarDay(LastYearDay)>>
       /\ last.ret[1] \in { 100 * m + d : m \in 1 .. 12, d \in 1 .. 31 }
       /\ getRequiredDistance([ valid |-> TRUE,
                                time |-> last.date.time + 365 * TicksPerDay ]) = last.ret

\* March 7 of the second year gives 3.07
C21_Witness ==
    /\ last.op = "getRequiredDistance"
    /\ last.date.time >= 365 * TicksPerDay
    /\ CalendarMonth(LastYearDay) = 3
    /\ CalendarDay(LastYearDay) = 7
    /\ last.ret = <<307>>

\* the sum of the distances of the runs of the last checkDailyGoal call
RECURSIVE RunsTotal(_, _)
RunsTotal(runs, n) == IF n = 0 THEN 0 ELSE RunsTotal(runs, n - 1) + runs[n].distance

\* C22: checkDailyGoal returns the sum of the runs' distances as totalDistance,
\* goalMet exactly when that sum is at least the required distance, and a
\* shortfall that is 0 exactly when the goal is met and the missing distance
\* otherwise
C22_DailyGoal ==
    (last.op = "checkDailyGoal")
    => LET total == RunsTotal(last.runs, Len(last.runs)) IN
       /\ last.ret.totalDistance = total
       /\ last.ret.goalMet <=> (total >= last.requiredDistance)
       /\ last.ret.shortfall >= 0
       /\ (last.ret.shortfall = 0) <=> last.ret.goalMet
       /\ ~last.ret.goalMet => last.ret.shortfall = last.requiredDistance - total

\* two runs of 1.00 and 0.31 miles meet the 1.31 miles of January 31 exactly
C22_Witness ==
    /\ last.op = "checkDailyGoal"
    /\ Len(last.runs) = 2
    /\ last.runs[1].distance = 100 /\ last.runs[2].distance = 31
    /\ last.requiredDistance = 131
    /\ last.ret.goalMet
    /\ last.ret.shortfall = 0

\* C23: a validateStreak call with consecutiveMisses >= 3 for a user who has an
\* elimination date leaves the elimination date and reason as they were
C23_EliminationWrittenOnce ==
    [][ ( /\ last'.op = "validateStreak"
          /\ last'.consecutiveMisses >= 3
          /\ last'.userId \in DOMAIN users
          /\ users[last'.userId].elimination_date # <<>> )
        => /\ users'[last'.userId].elimination_date
                = users[last'.userId].elimination_date
           /\ users'[last'.userId].elimination_reason
                = users[last'.userId].elimination_reason ]_vars

\* C24: a progress evaluation leaves every record of the user that has status
\* 'bailout' at status 'bailout'
C24_BailoutDayStaysExcused ==
    [][ (last'.op = "progress" /\ last'.fetched)
        => \A r \in progress :
             (r.user_id = last'.userId /\ r.status = "bailout")
             => \E q \in progress' :
                  /\ q.user_id = r.user_id
                  /\ q.date = r.date
                  /\ q.status = "bailout" ]_vars

\* C25: saveDailyProgress on a key that has a record replaces the record's
\* completed distance and status by the values passed, keeps its required
\* distance, and leaves every other record as it was
C25_UpsertFrame ==
    [][ (last'.op = "saveDailyProgress" /\ ~last'.threw)
        => LET day == last'.date.time \div TicksPerDay
               old == { r \in progress : r.user_id = last'.userId /\ r.date = day }
           IN  old # {}
               => progress' = (progress \ old)
                      \cup { [ user_id |-> r.user_id,
                               date |-> r.date,
                               required_distance |-> r.required_distance,
                               completed_distance |-> last'.completedDistance,
                               status |-> last'.status ] : r \in old } ]_vars

\* a completed day has been overwritten as excused with another required
\* distance passed; the record keeps its required distance, and the record of
\* the other user for the same day and the user's record of another day are there
C25_Witness ==
    /\ last.op = "saveDailyProgress"
    /\ ~last.threw
    /\ last.status = "bailout"
    /\ \E r \in progress :
         /\ r.user_id = last.userId
         /\ r.date = last.date.time \div TicksPerDay
         /\ r.status = "bailout"
         /\ r.completed_distance = 0
         /\ r.required_distance # last.requiredDistance
    /\ \E r \in progress :
         /\ r.user_id # last.userId
         /\ r.date = last.date.time \div TicksPerDay
         /\ r.status = "completed"
    /\ \E r \in progress :
         /\ r.user_id = last.userId
         /\ r.date # last.date.time \div TicksPerDay

\* C26: an evaluation of a user who has been reported eliminated before, and so
\* has an elimination date, reports 'eliminated'
C26_EliminatedIsTerminal ==
    /\ ( /\ last.op \in {"progress", "dashboard"}
         /\ last.fetched
         /\ users[last.userId].elimination_date # <<>> )
       => last.status = "eliminated"
    /\ last.op \in {"home", "home-answer", "leaderboard"}
       => \A k \in DOMAIN last.calls :
            users[last.calls[k].userId].elimination_date # <<>>
            => last.calls[k].status = "eliminated"

\* C27: a bailout request that spends a pass and records a date as 'bailout'
\* names a date whose stored status is 'missed'
C27_BailoutOnlyOnMissedDay ==
    [][ (last'.op = "use-bailout" /\ last'.accepted /\ ~last'.threw)
        => \E r \in progress :
             /\ r.user_id = last'.userId
             /\ r.date = last'.date.time \div TicksPerDay
             /\ r.status = "missed" ]_vars

\* C28: no candidate of the pool has more completed days than the winner
C28_WinnerHasMostCompletedDays ==
    (last.op = "determineWinner" /\ last.winner # <<>>)
    => \A c \in WinnerPool : CompletedDays(c) <= CompletedDays(last.winner[1].id)

\* the records of user i with status 'bailout'
BailoutDaysOf(i) == { r \in progress : r.user_id = i /\ r.status = "bailout" }

\* C29: every user has at most as many 'bailout' records as passes spent, that
\* is 4 minus bailout_passes
C29_BailoutDaysPaidFor ==
    \A i \in DOMAIN users :
        Cardinality(BailoutDaysOf(i)) <= 4 - users[i].bailout_passes

\* three passes are spent, the last on a date that cannot be stored, and two
\* excused days are on record
C29_Witness ==
    /\ last.op = "use-bailout"
    /\ last.accepted
    /\ last.threw
    /\ users[last.userId].bailout_passes = 1
    /\ Cardinality(BailoutDaysOf(last.userId)) = 2

\* C30: 0 <= currentStreak <= longestStreak <= the number of 'completed' or
\* 'bailout' records handed to calculateStreaks, and currentStreak and the
\* consecutive misses counted up to the same day are not both positive
C30_StreakBounds ==
    (last.op = "calculateStreaks")
    => /\ 0 <= last.ret.currentStreak
       /\ last.ret.currentStreak <= last.ret.longestStreak
       /\ last.ret.longestStreak <= Cardinality(GoodDays(StreakInput))
       /\ ~(last.ret.currentStreak > 0 /\ last.consecutiveMisses > 0)

\* a history that ends in two missed days behind a pending day and a streak of
\* 2: the current streak is 0, the longest 2, and 2 misses are counted
C30_Witness ==
    /\ last.op = "calculateStreaks"
    /\ last.ret.currentStreak = 0
    /\ last.ret.longestStreak = 2
    /\ last.consecutiveMisses = 2
    /\ { <<r.date, r.status>> : r \in StreakInput }
         = { <<1, "completed">>, <<2, "bailout">>, <<3, "pending">>,
             <<4, "missed">>, <<5, "missed">> }

====
